---- MODULE Spec2Model ----
(***************************************************************************)
(* A model of the hermitian package (src/hermitian/functional.py) and of   *)
(* the experiments that drive it (src/experiments.py).                     *)
(*                                                                         *)
(* The package is a chain of symbolic computations.  The computer-algebra  *)
(* values it manipulates are modelled exactly, in canonical form:          *)
(*                                                                         *)
(*   Expr    a finite sum of terms  c * exp(2*pi*I*num/den) * monomial,    *)
(*           one term per (angle, monomial), c a non-zero integer, the     *)
(*           angle num/den a reduced fraction in [0, 1/2) (the other half  *)
(*           turn is the sign of c: exp(I*pi) = -1), the monomial a bag    *)
(*           of atoms (matrix-symbol entries and their conjugates);        *)
(*   Matrix  a shape and a table of Expr entries;                          *)
(*   Mul     a product kept factored: a numeric coefficient and a bag of   *)
(*           non-constant Expr factors.                                    *)
(*                                                                         *)
(* Two values are equal in the model exactly when their canonical forms    *)
(* coincide.                                                               *)
(***************************************************************************)
EXTENDS Integers, Sequences, FiniteSets, Bags, TLC

VARIABLES pc, args, locals, ret, calls

vars == <<pc, args, locals, ret, calls>>

-----------------------------------------------------------------------------
(* Integer helpers.                                                        *)

RECURSIVE Gcd(_, _)
Gcd(m, n) == IF n = 0 THEN (IF m < 0 THEN -m ELSE m) ELSE Gcd(n, m % n)

Range(lo, hi) == [i \in 1..(IF hi > lo THEN hi - lo ELSE 0) |-> lo + i - 1]

SeqToSet(sq) == {sq[i] : i \in DOMAIN sq}

-----------------------------------------------------------------------------
(* Symbolic expressions.                                                   *)

Atom(name, index, conj) == <<name, index, conj>>

NormTerm(c, num, den, mon) ==
    LET r  == num % den
        hi == 2 * r >= den
        n2 == IF hi THEN 2 * r - den ELSE r
        d2 == IF hi THEN 2 * den ELSE den
        g  == Gcd(n2, d2)
    IN  [c |-> IF hi THEN -c ELSE c, ang |-> <<n2 \div g, d2 \div g>>, mon |-> mon]

KeyOf(t) == <<t.ang, t.mon>>

RECURSIVE SumCoefs(_)
SumCoefs(T) ==
    IF T = {} THEN 0
    ELSE LET t == CHOOSE u \in T : TRUE IN t[2].c + SumCoefs(T \ {t})

\* Collect a family of terms (tagged, so that equal terms from different
\* origins are both counted) into canonical form.
Collect(tagged) ==
    LET keys == {KeyOf(t[2]) : t \in tagged}
        coef(k) == SumCoefs({t \in tagged : KeyOf(t[2]) = k})
    IN  {[c |-> coef(k), ang |-> k[1], mon |-> k[2]] : k \in {kk \in keys : coef(kk) # 0}}

ExprInt(c) == IF c = 0 THEN {} ELSE {[c |-> c, ang |-> <<0, 1>>, mon |-> EmptyBag]}

ExprSym(atom) == {[c |-> 1, ang |-> <<0, 1>>, mon |-> SetToBag({atom})]}

Exp2PiI(k, p) == {NormTerm(1, k, p, EmptyBag)}

ExprAdd(x, y) == Collect({<<1, t>> : t \in x} \cup {<<2, t>> : t \in y})

ExprNeg(x) == {[t EXCEPT !.c = -t.c] : t \in x}

ExprSub(x, y) == ExprAdd(x, ExprNeg(y))

TermMul(s, t) ==
    NormTerm(s.c * t.c, s.ang[1] * t.ang[2] + t.ang[1] * s.ang[2],
             s.ang[2] * t.ang[2], s.mon (+) t.mon)

ExprMul(x, y) == Collect({<<<<s, t>>, TermMul(s, t)>> : s \in x, t \in y})

RECURSIVE ExprPow(_, _)
ExprPow(x, k) == IF k = 0 THEN ExprInt(1) ELSE ExprMul(ExprPow(x, k - 1), x)

ConjAtom(atom) == Atom(atom[1], atom[2], ~atom[3])

\* The image of a monomial under a renaming f of its atoms.
MapMon(mon, f) ==
    LET img == {f[at] : at \in DOMAIN mon}
    IN  [bt \in img |-> SumCoefs({<<at, [c |-> mon[at]]>> : at \in {u \in DOMAIN mon : f[u] = bt}})]

ExprConj(x) ==
    {NormTerm(t.c, t.ang[2] - t.ang[1], t.ang[2], MapMon(t.mon, [at \in DOMAIN t.mon |-> ConjAtom(at)])) : t \in x}

IsNumber(x) == \A t \in x : t.mon = EmptyBag

is_zero(x) == x = {}

\* x.subs(old, new) for matrix symbols old, new: every entry of old becomes
\* the same entry of new.
ExprSubs(x, old, new) ==
    LET ren(at) == IF at[1] = old THEN Atom(new, at[2], at[3]) ELSE at
    IN  Collect({<<t, [t EXCEPT !.mon = MapMon(t.mon, [at \in DOMAIN t.mon |-> ren(at)])]>> : t \in x})


-----------------------------------------------------------------------------
(* Matrices: sy.Matrix / sy.ImmutableMatrix.                               *)

\* (SubSeq yields the table as an explicit tuple of tuples.)
Matrix(r, c, e) ==
    [shape |-> <<r, c>>, e |-> SubSeq([i \in 1..r |-> SubSeq(e[i], 1, c)], 1, r)]

is_square(m) == m.shape[1] = m.shape[2]

Identity(n) ==
    Matrix(n, n, [i \in 1..n |-> [k \in 1..n |-> IF i = k THEN ExprInt(1) ELSE ExprInt(0)]])

RECURSIVE ExprSum(_, _)
ExprSum(f, k) == IF k = 0 THEN ExprInt(0) ELSE ExprAdd(ExprSum(f, k - 1), f[k])

\* A * B for A.shape[2] = B.shape[1].
MatMul(A, B) ==
    Matrix(A.shape[1], B.shape[2],
           [i \in 1..A.shape[1] |-> [k \in 1..B.shape[2] |->
               ExprSum([m \in 1..A.shape[2] |-> ExprMul(A.e[i][m], B.e[m][k])], A.shape[2])]])

RECURSIVE MatPow(_, _)
MatPow(A, j) == IF j = 0 THEN Identity(A.shape[1]) ELSE MatMul(MatPow(A, j - 1), A)

MatScale(x, A) ==
    Matrix(A.shape[1], A.shape[2],
           [i \in 1..A.shape[1] |-> [k \in 1..A.shape[2] |-> ExprMul(x, A.e[i][k])]])

\* Mutant of Dagger: the transpose, without the conjugation.
Dagger_transpose_only(A) ==
    Matrix(A.shape[2], A.shape[1],
           [i \in 1..A.shape[2] |-> [k \in 1..A.shape[1] |-> A.e[k][i]]])

\* sy.physics.quantum.dagger.Dagger: the conjugate transpose.
Dagger(A) ==
    Matrix(A.shape[2], A.shape[1],
           [i \in 1..A.shape[2] |-> [k \in 1..A.shape[1] |-> ExprConj(A.e[k][i])]])

-----------------------------------------------------------------------------
(* Results of calls: a returned value or a raised exception.               *)
(* Where the result of a call is used several times it is bound once, as   *)
(* the element of a singleton set: CHOOSE r \in {e(x) : x \in {call}} : TRUE *)
(* is e(call).                                                             *)

Return(v) == [exc |-> "none", val |-> v]

Raise(e) == [exc |-> e]

NoResult == [exc |-> "pending"]

-----------------------------------------------------------------------------
(* Roots of unity and the type III group.                                  *)

get_coprime_set(modulo) ==
    SelectSeq(Range(1, modulo), LAMBDA num : Gcd(num, modulo) = 1)

\* Mutant of get_primitive_pth_roots_of_unity: every k in range(1, p), coprime
\* to p or not.
get_primitive_pth_roots_of_unity_all_k(p) ==
    [i \in 1..(IF p > 1 THEN p - 1 ELSE 0) |-> Exp2PiI(i, p)]

get_primitive_pth_roots_of_unity(p) ==
    LET ks == get_coprime_set(p)
    IN  [i \in 1..Len(ks) |-> Exp2PiI(ks[i], p)]

\* Mutant of get_type_iii_gamma: the powers s^1 .. s^p (range(1, p + 1)).
get_type_iii_gamma_from_one(a, b, p, q, omega) ==
    IF a + b # Len(q) THEN Raise("AssertionError")
    ELSE LET n    == a + b
             rows == [j \in 1..n |-> [k \in 1..n |->
                         IF k = j THEN ExprPow(omega, q[j]) ELSE ExprInt(0)]]
             s    == Matrix(n, n, rows)
         IN  Return([j \in 1..p |-> MatPow(s, j)])

\* Mutant of get_type_iii_gamma: the multiples j * s in place of the powers.
get_type_iii_gamma_multiples(a, b, p, q, omega) ==
    IF a + b # Len(q) THEN Raise("AssertionError")
    ELSE LET n    == a + b
             rows == [j \in 1..n |-> [k \in 1..n |->
                         IF k = j THEN ExprPow(omega, q[j]) ELSE ExprInt(0)]]
             s    == Matrix(n, n, rows)
         IN  Return([j \in 1..p |-> MatScale(ExprInt(j - 1), s)])

get_type_iii_gamma(a, b, p, q, omega) ==
    IF a + b # Len(q) THEN Raise("AssertionError")
    ELSE LET n    == a + b
             rows == [j \in 1..n |-> [k \in 1..n |->
                         IF k = j THEN ExprPow(omega, q[j]) ELSE ExprInt(0)]]
             s    == Matrix(n, n, rows)
         IN  Return([j \in 1..p |-> MatPow(s, j - 1)])

get_I_ab(a, b) ==
    IF ~(a + b > 0) THEN Raise("AssertionError")
    ELSE IF a = 0 THEN Return(Identity(b))
    ELSE IF b = 0 THEN Return(Identity(a))
    ELSE Return(Matrix(a + b, a + b,
                [i \in 1..(a + b) |-> [k \in 1..(a + b) |->
                    IF i # k THEN ExprInt(0)
                    ELSE IF i <= a THEN ExprInt(1) ELSE ExprInt(-1)]]))

is_in_SU_AB(matrix, a, b) ==
    IF ~is_square(matrix) THEN Return(FALSE)
    ELSE IF matrix.shape[1] # a + b THEN Return(FALSE)
    ELSE LET I_ab == get_I_ab(a, b)
         IN  IF I_ab.exc # "none" THEN I_ab
             ELSE Return(MatMul(MatMul(Dagger(matrix), I_ab.val), matrix) = I_ab.val)


\* src/experiments.py: the membership assertion for the first primitive root.
RECURSIVE AllInSUAB(_, _, _, _)
AllInSUAB(group, i, a, b) ==
    IF i > Len(group) THEN Return(TRUE)
    ELSE LET r == is_in_SU_AB(group[i], a, b)
         IN  IF r.exc # "none" THEN r
             ELSE IF ~r.val THEN Raise("AssertionError")
             ELSE AllInSUAB(group, i + 1, a, b)

check_type_iii_gamma_is_subset_of_SU_AB(a, b, p, q) ==
    LET primitive_roots == get_primitive_pth_roots_of_unity(p)
    IN  IF Len(primitive_roots) = 0 THEN Return("None")
        ELSE LET group == get_type_iii_gamma(a, b, p, q, primitive_roots[1])
             IN  IF group.exc # "none" THEN group
                 ELSE LET r == AllInSUAB(group.val, 1, a, b)
                      IN  IF r.exc # "none" THEN r ELSE Return("None")

-----------------------------------------------------------------------------
(* The indefinite inner product and the invariant polynomial.              *)

\* An exception raised at a line of functional.py.
RaiseAt(e, line) == [exc |-> e, line |-> line]

\* Matrix.row(j), j counted from 0.
Row(m, j) == Matrix(1, m.shape[2], <<m.e[j + 1]>>)

MatConj(m) ==
    Matrix(m.shape[1], m.shape[2],
           [i \in 1..m.shape[1] |-> [k \in 1..m.shape[2] |-> ExprConj(m.e[i][k])]])

\* Matrix.values(): the non-zero entries, in row-major order.
RECURSIVE Flat(_, _)
Flat(m, i) == IF i > m.shape[1] THEN <<>> ELSE m.e[i] \o Flat(m, i + 1)

values(m) == SelectSeq(Flat(m, 1), LAMBDA x : ~is_zero(x))

\* One of the two loops of get_hyperquadric_hermitian_inner_product, from
\* index j (counted from 0) to hi - 1; sign = 1 adds, sign = -1 subtracts.
RECURSIVE InnerProductLoop(_, _, _, _, _, _, _)
InnerProductLoop(z, w, j, hi, sign, result, line) ==
    IF j >= hi THEN Return(result)
    ELSE CHOOSE r \in
           {IF Len(entries) # 1 THEN RaiseAt("AssertionError", line)
            ELSE InnerProductLoop(z, w, j + 1, hi, sign,
                     IF sign = 1 THEN ExprAdd(result, entries[1])
                                 ELSE ExprSub(result, entries[1]),
                     line)
            : entries \in {values(MatMul(Row(z, j), MatConj(Row(w, j))))}} : TRUE

\* (Every sympy matrix has a shape of length 2, so line 124 never raises.)
get_hyperquadric_hermitian_inner_product(z, w, a, b) ==
    IF z.shape # w.shape THEN RaiseAt("AssertionError", 129)
    ELSE IF z.shape[2] # 1 THEN RaiseAt("AssertionError", 130)
    ELSE IF z.shape[1] # a + b THEN RaiseAt("AssertionError", 133)
    ELSE CHOOSE r \in
           {IF first.exc # "none" THEN first
            ELSE InnerProductLoop(z, w, a, a + b, -1, first.val, 144)
            : first \in {InnerProductLoop(z, w, 0, a, 1, ExprInt(0), 138)}} : TRUE

\* Mutant of MulTimes: a factor already present is not multiplied in again.
MulTimes_idempotent(m, x) ==
    IF IsNumber(x)
    THEN (IF is_zero(ExprMul(m.coeff, x)) THEN [coeff |-> ExprInt(0), factors |-> EmptyBag]
          ELSE [m EXCEPT !.coeff = ExprMul(m.coeff, x)])
    ELSE IF is_zero(m.coeff) THEN m
    ELSE [m EXCEPT !.factors = SetToBag(DOMAIN @ \cup {x})]

\* A product kept factored (sy.Mul): a numeric coefficient and a bag of
\* non-constant factors.
MulOne == [coeff |-> ExprInt(1), factors |-> EmptyBag]

MulTimes(m, x) ==
    IF IsNumber(x)
    THEN (IF is_zero(ExprMul(m.coeff, x)) THEN [coeff |-> ExprInt(0), factors |-> EmptyBag]
          ELSE [m EXCEPT !.coeff = ExprMul(m.coeff, x)])
    ELSE IF is_zero(m.coeff) THEN m
    ELSE [m EXCEPT !.factors = @ (+) SetToBag({x})]

\* The factor 1 - <gamma * z, w>_{a,b} of the product loop at line `line`.
PhiFactor(gamma, z, w, a, b, line) ==
    IF gamma.shape[2] # z.shape[1] THEN RaiseAt("ShapeError", line)
    ELSE CHOOSE r \in
           {IF ip.exc # "none" THEN ip ELSE Return(ExprSub(ExprInt(1), ip.val))
            : ip \in {get_hyperquadric_hermitian_inner_product(MatMul(gamma, z), w, a, b)}} : TRUE

RECURSIVE PhiLoop(_, _, _, _, _, _, _, _)
PhiLoop(z, w, group, a, b, i, result, line) ==
    IF i > Len(group) THEN Return(result)
    ELSE CHOOSE r \in
           {IF f.exc # "none" THEN f
            ELSE PhiLoop(z, w, group, a, b, i + 1, MulTimes(result, f.val), line)
            : f \in {PhiFactor(group[i], z, w, a, b, line)}} : TRUE

get_phi_gamma_product(z, group, a, b) ==
    IF ~(Len(group) > 0) THEN RaiseAt("AssertionError", 157)
    ELSE IF group[1].shape[1] # group[1].shape[2] THEN RaiseAt("AssertionError", 161)
    ELSE IF group[1].shape[1] # a + b THEN RaiseAt("AssertionError", 164)
    ELSE PhiLoop(z, z, group, a, b, 1, MulOne, 168)

get_phi_gamma_product_polarized(z, w, group, a, b) ==
    IF ~(Len(group) > 0) THEN RaiseAt("AssertionError", 178)
    ELSE IF group[1].shape[1] # group[1].shape[2] THEN RaiseAt("AssertionError", 183)
    ELSE IF group[1].shape[1] # a + b THEN RaiseAt("AssertionError", 187)
    ELSE PhiLoop(z, w, group, a, b, 1, MulOne, 192)

\* m.subs(old, new) on a product: the substitution in every factor.
RECURSIVE MulSubs(_, _, _)
MulSubs(m, old, new) ==
    IF m.factors = EmptyBag THEN [coeff |-> m.coeff, factors |-> EmptyBag]
    ELSE LET f    == CHOOSE x \in DOMAIN m.factors : TRUE
             rest == MulSubs([m EXCEPT !.factors = @ (-) SetToBag({f})], old, new)
         IN  MulTimes(rest, ExprSubs(f, old, new))

\* sy.conjugate on a product: the conjugate of every factor.
RECURSIVE MulConj(_)
MulConj(m) ==
    IF m.factors = EmptyBag THEN [coeff |-> ExprConj(m.coeff), factors |-> EmptyBag]
    ELSE LET f    == CHOOSE x \in DOMAIN m.factors : TRUE
             rest == MulConj([m EXCEPT !.factors = @ (-) SetToBag({f})])
         IN  MulTimes(rest, ExprConj(f))

\* sy.simplify rewrites an expression without changing its value; the
\* canonical form of the model is the value, so it is left as it is.
simplify(m) == m

\* sy.Matrix(sy.MatrixSymbol(name, n, 1)): the column of the symbol's entries.
SymbolVector(name, n) ==
    Matrix(n, 1, [j \in 1..n |-> <<ExprSym(Atom(name, j, FALSE))>>])

\* f.subs([(z, w), (w, z)]) replaces in the order of the list: first z by w
\* in f, then w by z in the result. A shape is <<rows, cols>>.
is_hermitian_symmetric_polynomial(f, z, w) ==
    IF z.shape # w.shape THEN RaiseAt("AssertionError", 276)
    ELSE IF Len(z.shape) # 2 THEN RaiseAt("AssertionError", 277)
    ELSE IF z.shape[2] # 1 THEN RaiseAt("AssertionError", 278)
    ELSE LET f_w_z_bar == ExprSubs(ExprSubs(f, z.name, w.name), w.name, z.name)
             f_w_z_bar_conjugate == ExprConj(f_w_z_bar)
         IN  Return(f = f_w_z_bar_conjugate)

get_phi_gamma_z_w_polarized(a, b, p, q) ==
    LET z == SymbolVector("z", a + b)
        w == SymbolVector("w", a + b)
    IN  CHOOSE r \in
          {IF ~(Len(primitive_roots) > 0) THEN RaiseAt("AssertionError", 244)
           ELSE CHOOSE r2 \in
                  {IF group.exc # "none" THEN group
                   ELSE CHOOSE r3 \in
                          {IF phi_gamma.exc # "none" THEN phi_gamma
                           ELSE Return(simplify(phi_gamma.val))
                           : phi_gamma \in {get_phi_gamma_product_polarized(z, w, group.val, a, b)}} : TRUE
                   : group \in {get_type_iii_gamma(a, b, p, q, primitive_roots[1])}} : TRUE
           : primitive_roots \in {get_primitive_pth_roots_of_unity(p)}} : TRUE

\* Mutant of check_phi_is_hermitian_symmmetric: the swap without the dummy
\* symbols, z -> w and then w -> z.
check_phi_is_hermitian_symmmetric_no_dummy(a, b, p, q) ==
    CHOOSE r \in
      {IF phi_gamma.exc # "none" THEN phi_gamma
       ELSE LET s1 == MulSubs(phi_gamma.val, "z", "w")
                s2 == MulSubs(s1, "w", "z")
            IN  Return(phi_gamma.val = MulConj(s2))
       : phi_gamma \in {get_phi_gamma_z_w_polarized(a, b, p, q)}} : TRUE

\* src/experiments.py: swap (z, w) through the dummy symbols z', w',
\* conjugate, and compare with the original.
check_phi_is_hermitian_symmmetric(a, b, p, q) ==
    CHOOSE r \in
      {IF phi_gamma.exc # "none" THEN phi_gamma
       ELSE LET s1 == MulSubs(phi_gamma.val, "z", "w'")
                s2 == MulSubs(s1, "w", "z")
                s3 == MulSubs(s2, "w'", "w")
            IN  Return(phi_gamma.val = MulConj(s3))
       : phi_gamma \in {get_phi_gamma_z_w_polarized(a, b, p, q)}} : TRUE

-----------------------------------------------------------------------------
(* Bounds of the model.                                                    *)

MaxN == 2

MaxP == 5

-----------------------------------------------------------------------------
(* SpecGamma: the group generator and the membership experiment, on every  *)
(* (a, b, p, q, omega) within the bounds, q of any length up to MaxN.      *)

Tuples(S, n) == [1..n -> S]

TuplesUpTo(S, n) == UNION {Tuples(S, k) : k \in 0..n}

PrimitiveRoots(p) == {Exp2PiI(k, p) : k \in {kk \in 0..(p - 1) : Gcd(kk, p) = 1}}

InitGamma ==
    /\ pc = "get_type_iii_gamma"
    /\ \E a \in 0..MaxN, p \in 1..MaxP :
        \E b \in 0..(MaxN - a), q \in TuplesUpTo(0..(p - 1), MaxN), omega \in PrimitiveRoots(p) :
            args = [a |-> a, b |-> b, p |-> p, q |-> q, omega |-> omega]
    /\ locals = <<>>
    /\ ret = NoResult
    /\ calls = <<>>

CallTypeIIIGamma ==
    /\ pc = "get_type_iii_gamma"
    /\ ret' = get_type_iii_gamma(args.a, args.b, args.p, args.q, args.omega)
    /\ pc' = IF ret'.exc = "none" THEN "is_in_SU_AB" ELSE "done"
    /\ UNCHANGED <<args, locals, calls>>

\* is_in_SU_AB on every element of the returned list.
CallIsInSUAB ==
    /\ pc = "is_in_SU_AB"
    /\ locals' = [j \in 1..Len(ret.val) |-> is_in_SU_AB(ret.val[j], args.a, args.b)]
    /\ pc' = "check_type_iii_gamma_is_subset_of_SU_AB"
    /\ UNCHANGED <<args, ret, calls>>

CallCheckTypeIIIGamma ==
    /\ pc = "check_type_iii_gamma_is_subset_of_SU_AB"
    /\ calls' = <<check_type_iii_gamma_is_subset_of_SU_AB(args.a, args.b, args.p, args.q)>>
    /\ pc' = "done"
    /\ UNCHANGED <<args, locals, ret>>

NextGamma == CallTypeIIIGamma \/ CallIsInSUAB \/ CallCheckTypeIIIGamma

SpecGamma == InitGamma /\ [][NextGamma]_vars


-----------------------------------------------------------------------------
(* Claims about the group generator.                                       *)

RootIndex(omega, p) == CHOOSE k \in 0..(p - 1) : Exp2PiI(k, p) = omega

\* The diagonal matrix with entries omega^(q[k] * j), written out.
DiagPower(q, omega, p, j) ==
    Matrix(Len(q), Len(q),
           [i \in 1..Len(q) |-> [k \in 1..Len(q) |->
               IF i = k THEN Exp2PiI(RootIndex(omega, p) * q[k] * j, p) ELSE ExprInt(0)]])

GammaReturned == pc \in {"is_in_SU_AB", "check_type_iii_gamma_is_subset_of_SU_AB", "done"}

\* C1: get_type_iii_gamma returns a list of exactly p matrices whose j-th
\* element (j = 0..p-1) is the diagonal matrix with entries omega^(q[k]*j),
\* element 0 being the identity; when len(q) # a+b the call fails.
Thm_C1_GroupClosure ==
    GammaReturned =>
        IF args.a + args.b = Len(args.q)
        THEN /\ ret.exc = "none"
             /\ Len(ret.val) = args.p
             /\ \A j \in 0..(args.p - 1) :
                    ret.val[j + 1] = DiagPower(args.q, args.omega, args.p, j)
             /\ ret.val[1] = Identity(args.a + args.b)
        ELSE ret.exc = "AssertionError"

Wit_C1_GroupClosure ==
    /\ pc = "done"
    /\ ret.exc = "none"
    /\ args.p = 5 /\ args.q = <<2, 3>> /\ args.omega = Exp2PiI(2, 5)
    /\ ret.val[4] = DiagPower(<<2, 3>>, Exp2PiI(2, 5), 5, 3)
    /\ ret.val[4] # Identity(2)

ValidGammaArgs ==
    /\ args.a + args.b = Len(args.q)
    /\ Len(args.q) >= 1
    /\ args.p >= 1
    /\ \A k \in DOMAIN args.q : args.q[k] \in 1..(args.p - 1)
    /\ args.omega \in PrimitiveRoots(args.p)

RECURSIVE GcdAll(_, _, _)
GcdAll(p, q, k) == IF k = 0 THEN p ELSE Gcd(GcdAll(p, q, k - 1), q[k])

\* C2 (as stated): for every valid input the p listed powers are pairwise
\* distinct matrices, so the group has exactly p elements as a set.
Orig_C2_GroupOrderIsP ==
    (GammaReturned /\ ValidGammaArgs) =>
        Cardinality(SeqToSet(ret.val)) = args.p

\* C2 (amended): for every valid input the number of distinct matrices among
\* the p listed powers is p / gcd(p, q[1], ..., q[n]); it is p exactly when
\* gcd(p, q[1], ..., q[n]) = 1.
Thm_C2_GroupOrder ==
    (GammaReturned /\ ValidGammaArgs) =>
        /\ Len(ret.val) = args.p
        /\ Cardinality(SeqToSet(ret.val)) * GcdAll(args.p, args.q, Len(args.q)) = args.p

Wit_C2_GroupOrder ==
    /\ GammaReturned /\ ValidGammaArgs
    /\ args.p = 4 /\ args.q = <<2, 2>>
    /\ Cardinality(SeqToSet(ret.val)) = 2

\* C3: for every valid (a,b,p,q,omega) with a+b >= 1 every element of the
\* generated list satisfies gamma^dagger * I_ab * gamma = I_ab: is_in_SU_AB
\* returns true on it and the assertion of the membership experiment holds.
Thm_C3_GroupMembership ==
    (ValidGammaArgs /\ pc \in {"check_type_iii_gamma_is_subset_of_SU_AB", "done"}) =>
        /\ \A j \in DOMAIN locals : locals[j] = Return(TRUE)
        /\ \A j \in DOMAIN ret.val :
              MatMul(MatMul(Dagger(ret.val[j]), get_I_ab(args.a, args.b).val), ret.val[j])
                = get_I_ab(args.a, args.b).val
        /\ pc = "done" => calls[1] = Return("None")

Wit_C3_GroupMembership ==
    /\ ValidGammaArgs /\ pc = "done"
    /\ args.a = 0 /\ args.b = 2 /\ args.p = 5
    /\ Len(locals) = 5
    /\ locals[3] = Return(TRUE)
    /\ calls[1] = Return("None")


-----------------------------------------------------------------------------
(* SpecFuzz: run_experiment_with_fuzzed_parameters_a_b_p_q, one action per *)
(* loop header, the callback recorded in calls.                            *)

FuzzMaxN == 3

FuzzMaxP == 5

FuzzMaxMin == 2

\* itertools.combinations(pool, r): the r-subsets of pool, as tuples in pool
\* order, in lexicographic order of positions.
RECURSIVE combinations(_, _)
combinations(pool, r) ==
    IF r = 0 THEN << <<>> >>
    ELSE IF Len(pool) < r THEN <<>>
    ELSE LET with == combinations(Tail(pool), r - 1)
         IN  [i \in 1..Len(with) |-> <<Head(pool)>> \o with[i]]
                \o combinations(Tail(pool), r)

InitFuzz ==
    /\ pc = "run_experiment"
    /\ args \in [max_n : 0..FuzzMaxN, max_p : 0..FuzzMaxP,
                  min_a : 0..FuzzMaxMin, min_b : 0..FuzzMaxMin]
    /\ locals = <<>>
    /\ ret = NoResult
    /\ calls = <<>>

FuzzEnter ==
    /\ pc = "run_experiment"
    /\ IF ~(args.max_n - 1 <= args.max_p)
       THEN /\ ret' = Raise("AssertionError")
            /\ pc' = "raised"
            /\ UNCHANGED locals
       ELSE /\ locals' = [n_it |-> Range(1, args.max_n + 1)]
            /\ pc' = "for_n"
            /\ UNCHANGED ret
    /\ UNCHANGED <<args, calls>>

FuzzForN ==
    /\ pc = "for_n"
    /\ IF locals.n_it = <<>>
       THEN /\ ret' = Return("None")
            /\ pc' = "done"
            /\ UNCHANGED locals
       ELSE /\ locals' = [n    |-> Head(locals.n_it),
                          n_it |-> Tail(locals.n_it),
                          a_it |-> Range(args.min_a, Head(locals.n_it) + 1 - args.min_b)]
            /\ pc' = "for_a"
            /\ UNCHANGED ret
    /\ UNCHANGED <<args, calls>>

\* Mutant of FuzzForA: p drawn from range(n, max_p + 1).
FuzzForA_p_from_n ==
    /\ pc = "for_a"
    /\ IF locals.a_it = <<>>
       THEN /\ locals' = [n_it |-> locals.n_it]
            /\ pc' = "for_n"
       ELSE /\ locals' = [n    |-> locals.n,
                          n_it |-> locals.n_it,
                          a    |-> Head(locals.a_it),
                          a_it |-> Tail(locals.a_it),
                          b    |-> locals.n - Head(locals.a_it),
                          p_it |-> Range(locals.n, args.max_p + 1)]
            /\ pc' = "for_p"
    /\ UNCHANGED <<args, ret, calls>>

FuzzForA ==
    /\ pc = "for_a"
    /\ IF locals.a_it = <<>>
       THEN /\ locals' = [n_it |-> locals.n_it]
            /\ pc' = "for_n"
       ELSE /\ locals' = [n    |-> locals.n,
                          n_it |-> locals.n_it,
                          a    |-> Head(locals.a_it),
                          a_it |-> Tail(locals.a_it),
                          b    |-> locals.n - Head(locals.a_it),
                          p_it |-> Range(locals.n + 1, args.max_p + 1)]
            /\ pc' = "for_p"
    /\ UNCHANGED <<args, ret, calls>>

\* Mutant of FuzzForP: q drawn from range(1, p + 1).
FuzzForP_q_upto_p ==
    /\ pc = "for_p"
    /\ IF locals.p_it = <<>>
       THEN /\ locals' = [n |-> locals.n, n_it |-> locals.n_it, a_it |-> locals.a_it]
            /\ pc' = "for_a"
            /\ UNCHANGED ret
       ELSE IF ~(locals.n <= Head(locals.p_it) - 1)
       THEN /\ ret' = Raise("AssertionError")
            /\ pc' = "raised"
            /\ UNCHANGED locals
       ELSE /\ locals' = [n    |-> locals.n,
                          n_it |-> locals.n_it,
                          a    |-> locals.a,
                          a_it |-> locals.a_it,
                          b    |-> locals.b,
                          p    |-> Head(locals.p_it),
                          p_it |-> Tail(locals.p_it),
                          q_it |-> combinations(Range(1, Head(locals.p_it) + 1), locals.n)]
            /\ pc' = "for_q"
            /\ UNCHANGED ret
    /\ UNCHANGED <<args, calls>>

FuzzForP ==
    /\ pc = "for_p"
    /\ IF locals.p_it = <<>>
       THEN /\ locals' = [n |-> locals.n, n_it |-> locals.n_it, a_it |-> locals.a_it]
            /\ pc' = "for_a"
            /\ UNCHANGED ret
       ELSE IF ~(locals.n <= Head(locals.p_it) - 1)
       THEN /\ ret' = Raise("AssertionError")
            /\ pc' = "raised"
            /\ UNCHANGED locals
       ELSE /\ locals' = [n    |-> locals.n,
                          n_it |-> locals.n_it,
                          a    |-> locals.a,
                          a_it |-> locals.a_it,
                          b    |-> locals.b,
                          p    |-> Head(locals.p_it),
                          p_it |-> Tail(locals.p_it),
                          q_it |-> combinations(Range(1, Head(locals.p_it)), locals.n)]
            /\ pc' = "for_q"
            /\ UNCHANGED ret
    /\ UNCHANGED <<args, calls>>

\* One iteration of the innermost loop: experiment(a, b, p, q).
FuzzForQ ==
    /\ pc = "for_q"
    /\ IF locals.q_it = <<>>
       THEN /\ locals' = [n    |-> locals.n,
                          n_it |-> locals.n_it,
                          a    |-> locals.a,
                          a_it |-> locals.a_it,
                          b    |-> locals.b,
                          p_it |-> locals.p_it]
            /\ pc' = "for_p"
            /\ UNCHANGED calls
       ELSE /\ calls' = Append(calls, [a |-> locals.a, b |-> locals.b, p |-> locals.p,
                                       q |-> Head(locals.q_it)])
            /\ locals' = [locals EXCEPT !.q_it = Tail(locals.q_it)]
            /\ pc' = "for_q"
    /\ UNCHANGED <<args, ret>>

NextFuzz == FuzzEnter \/ FuzzForN \/ FuzzForA \/ FuzzForP \/ FuzzForQ

SpecFuzz == InitFuzz /\ [][NextFuzz]_vars

\* The driver is a sequential program: it keeps running until it returns or
\* raises.
SpecFuzzFair == SpecFuzz /\ WF_vars(NextFuzz)


-----------------------------------------------------------------------------
(* Claims about the fuzzing driver.                                        *)

StrictlyIncreasing(q) == \A k \in 1..(Len(q) - 1) : q[k] < q[k + 1]

\* The tuple c is one the contract lists.
FuzzListed(c) ==
    LET n == Len(c.q)
    IN  /\ n \in 1..args.max_n
        /\ args.min_a <= c.a /\ c.a <= n - args.min_b
        /\ c.b = n - c.a
        /\ n + 1 <= c.p /\ c.p <= args.max_p
        /\ \A k \in 1..n : c.q[k] \in 1..(c.p - 1)
        /\ StrictlyIncreasing(c.q)

RECURSIVE LexLess(_, _)
LexLess(u, v) ==
    IF u = <<>> \/ v = <<>> THEN FALSE
    ELSE Head(u) < Head(v) \/ (Head(u) = Head(v) /\ LexLess(Tail(u), Tail(v)))

\* Nested-loop order: n, then a, then p, then q lexicographically.
FuzzBefore(c, d) ==
    LexLess(<<Len(c.q), c.a, c.p>> \o c.q, <<Len(d.q), d.a, d.p>> \o d.q)

RECURSIVE Binomial(_, _)
Binomial(m, k) ==
    IF k = 0 THEN 1 ELSE IF m < k THEN 0
    ELSE Binomial(m - 1, k - 1) + Binomial(m - 1, k)

RECURSIVE SumOver(_, _, _)
SumOver(f, lo, hi) == IF hi < lo THEN 0 ELSE f[hi] + SumOver(f, lo, hi - 1)

\* The number of tuples the contract lists.
FuzzListedCount ==
    LET perN == [n \in 1..args.max_n |->
                   (IF n - args.min_b >= args.min_a THEN n - args.min_b - args.min_a + 1 ELSE 0)
                   * SumOver([pp \in (n + 1)..args.max_p |-> Binomial(pp - 1, n)],
                             n + 1, args.max_p)]
    IN  SumOver(perN, 1, args.max_n)

FuzzSafe ==
    /\ \A i \in DOMAIN calls : FuzzListed(calls[i])
    /\ \A i \in 1..(Len(calls) - 1) : FuzzBefore(calls[i], calls[i + 1])
    /\ pc = "done" => Len(calls) = FuzzListedCount

\* C9: (under the driver's precondition max_n - 1 <= max_p) the callback is
\* invoked exactly once for each listed tuple (a, b, p, q) and for no other,
\* in nested-loop order (n, then a, then p, then q lexicographically), and
\* the driver returns after the last invocation.
Thm_C9_FuzzEnumeration ==
    /\ []FuzzSafe
    /\ (args.max_n - 1 <= args.max_p) ~> (pc = "done" /\ Len(calls) = FuzzListedCount)

Wit_C9_FuzzEnumeration ==
    /\ pc = "done"
    /\ args = [max_n |-> 3, max_p |-> 4, min_a |-> 0, min_b |-> 1]
    /\ Len(calls) = 17
    /\ calls[1] = [a |-> 0, b |-> 1, p |-> 2, q |-> <<1>>]
    /\ calls[17] = [a |-> 2, b |-> 1, p |-> 4, q |-> <<1, 2, 3>>]

\* C10: the driver fails without invoking the callback when
\* max_n - 1 > max_p, and whenever max_n - 1 <= max_p holds the range
\* n+1..max_p iterated for each n in 1..max_n is non-empty.
Orig_C10_PreconditionGivesP ==
    /\ (args.max_n - 1 > args.max_p /\ pc # "run_experiment") =>
            (pc = "raised" /\ ret = Raise("AssertionError") /\ calls = <<>>)
    /\ (args.max_n - 1 <= args.max_p /\ pc = "for_p") =>
            Range(locals.n + 1, args.max_p + 1) # <<>>


-----------------------------------------------------------------------------
(* SpecIP: get_hyperquadric_hermitian_inner_product on vectors whose       *)
(* entries are 0, I or a symbol, of every shape within the bound.          *)

IPMaxDim == 2

VectorEntry(name, j, kind) ==
    IF kind = "zero" THEN ExprInt(0)
    ELSE IF kind = "I" THEN Exp2PiI(1, 4)
    ELSE ExprSym(Atom(name, j, FALSE))

ColumnVectors(name, n) ==
    {Matrix(n, 1, [j \in 1..n |-> <<VectorEntry(name, j, kinds[j])>>]) :
        kinds \in [1..n -> {"zero", "I", "symbol"}]}

\* An n x 2 matrix: not a column vector.
WideMatrix(name, n) ==
    Matrix(n, 2, [j \in 1..n |-> <<ExprSym(Atom(name, j, FALSE)), ExprSym(Atom(name, j, FALSE))>>])

InitIP ==
    /\ pc = "get_hyperquadric_hermitian_inner_product"
    /\ \E nz \in 0..IPMaxDim, nw \in 0..IPMaxDim, a \in 0..IPMaxDim, b \in 0..IPMaxDim :
        \E z \in ColumnVectors("z", nz) \cup {WideMatrix("z", nz)},
           w \in ColumnVectors("w", nw) \cup {WideMatrix("w", nw)} :
            args = [z |-> z, w |-> w, a |-> a, b |-> b]
    /\ locals = <<>>
    /\ ret = NoResult
    /\ calls = <<>>

CallInnerProduct ==
    /\ pc = "get_hyperquadric_hermitian_inner_product"
    /\ ret' = get_hyperquadric_hermitian_inner_product(args.z, args.w, args.a, args.b)
    /\ pc' = "done"
    /\ UNCHANGED <<args, locals, calls>>

NextIP == CallInnerProduct

SpecIP == InitIP /\ [][NextIP]_vars

\* sum_{j<a} z_j * conj(w_j) - sum_{a<=j<n} z_j * conj(w_j), written out.
SignedSum(z, w, a) ==
    ExprSum([j \in 1..z.shape[1] |->
                IF j <= a THEN ExprMul(z.e[j][1], ExprConj(w.e[j][1]))
                ELSE ExprNeg(ExprMul(z.e[j][1], ExprConj(w.e[j][1])))],
            z.shape[1])

\* C6: for column vectors z, w of equal shape (n,1) with n = a+b the inner
\* product returns sum_{j<a} z_j*conj(w_j) - sum_{a<=j<n} z_j*conj(w_j); for
\* shapes that differ, a second dimension other than 1 or a length other
\* than a+b it raises and returns no value.
Orig_C6_InnerProduct ==
    pc = "done" =>
        IF /\ args.z.shape = args.w.shape
           /\ args.z.shape[2] = 1
           /\ args.z.shape[1] = args.a + args.b
        THEN ret = Return(SignedSum(args.z, args.w, args.a))
        ELSE ret.exc = "AssertionError"


-----------------------------------------------------------------------------
(* SpecPhi: get_phi_gamma_product_polarized and get_phi_gamma_product on   *)
(* symbolic vectors z, w and every list of up to PhiMaxLen matrices drawn  *)
(* from diagonal matrices with entries 1 or I, the exchange matrix, and    *)
(* matrices of the wrong shape, for a + b >= 1.                            *)

PhiMaxN == 2

PhiMaxLen == 2

DiagonalMatrices(n) ==
    {Matrix(n, n, [i \in 1..n |-> [k \in 1..n |->
        IF i = k THEN Exp2PiI(d[i], 4) ELSE ExprInt(0)]]) : d \in [1..n -> {0, 1}]}

ExchangeMatrix(n) ==
    Matrix(n, n, [i \in 1..n |-> [k \in 1..n |->
        IF i + k = n + 1 THEN ExprInt(1) ELSE ExprInt(0)]])

\* Invertible n x n matrices.
GroupMatrices(n) == DiagonalMatrices(n) \cup {ExchangeMatrix(n)}

Ones(r, c) == Matrix(r, c, [i \in 1..r |-> [k \in 1..c |-> ExprInt(1)]])

\* Matrices that are not n x n: too large, too wide, too tall.
WrongShapeMatrices(n) == {Identity(n + 1), Ones(n, n + 1), Ones(n + 1, n)}

InitPhi ==
    /\ pc = "get_phi_gamma_product_polarized"
    /\ \E a \in 0..PhiMaxN :
        \E b \in (IF a = 0 THEN 1 ELSE 0)..(PhiMaxN - a) :
        \E group \in TuplesUpTo(GroupMatrices(a + b) \cup WrongShapeMatrices(a + b), PhiMaxLen) :
            args = [z |-> SymbolVector("z", a + b), w |-> SymbolVector("w", a + b),
                    group |-> group, a |-> a, b |-> b]
    /\ locals = <<>>
    /\ ret = NoResult
    /\ calls = <<>>

CallPhiPolarized ==
    /\ pc = "get_phi_gamma_product_polarized"
    /\ ret' = get_phi_gamma_product_polarized(args.z, args.w, args.group, args.a, args.b)
    /\ pc' = "get_phi_gamma_product"
    /\ UNCHANGED <<args, locals, calls>>

\* The unpolarized product of the same group; its result is kept in locals.
CallPhi ==
    /\ pc = "get_phi_gamma_product"
    /\ locals' = get_phi_gamma_product(args.z, args.group, args.a, args.b)
    /\ pc' = "done"
    /\ UNCHANGED <<args, ret, calls>>

NextPhi == CallPhiPolarized \/ CallPhi

SpecPhi == InitPhi /\ [][NextPhi]_vars

-----------------------------------------------------------------------------
(* Claims about the invariant polynomial builder.                          *)

\* 1 - sum_j sign_j * (sum_k gamma[j][k] * z_k) * conj(w_j), written out for
\* the symbols named zname and wname.
WrittenFactor(gamma, zname, wname, a) ==
    LET n == gamma.shape[1]
        form(j) == ExprSum([k \in 1..n |->
                      ExprMul(gamma.e[j][k],
                              ExprMul(ExprSym(Atom(zname, k, FALSE)),
                                      ExprSym(Atom(wname, j, TRUE))))], n)
    IN  ExprSub(ExprInt(1),
                ExprSum([j \in 1..n |-> IF j <= a THEN form(j) ELSE ExprNeg(form(j))], n))

RECURSIVE WrittenProduct(_, _, _, _, _)
WrittenProduct(group, i, zname, wname, a) ==
    IF i = 0 THEN MulOne
    ELSE LET rest == WrittenProduct(group, i - 1, zname, wname, a)
             f    == WrittenFactor(group[i], zname, wname, a)
         IN  IF IsNumber(f) THEN [rest EXCEPT !.coeff = ExprMul(@, f)]
             ELSE [rest EXCEPT !.factors = @ (+) SetToBag({f})]

GoodGroup ==
    /\ Len(args.group) > 0
    /\ \A i \in DOMAIN args.group : args.group[i] \in GroupMatrices(args.a + args.b)

\* C7: for every non-empty list of (a+b)x(a+b) group matrices the polarized
\* product is the product over every list element, repetitions included, of
\* (1 - <gamma*z, w>), and the unpolarized product is that product with w
\* replaced by z.
Thm_C7_PhiProduct ==
    (pc = "done" /\ GoodGroup) =>
        /\ ret = Return(WrittenProduct(args.group, Len(args.group), "z", "w", args.a))
        /\ BagCardinality(ret.val.factors) = Len(args.group)
        /\ locals.exc = "none"
        /\ locals.val = MulSubs(ret.val, "w", "z")

Wit_C7_PhiProduct ==
    /\ pc = "done" /\ GoodGroup
    /\ args.a = 1 /\ args.b = 1
    /\ args.group = <<ExchangeMatrix(2), ExchangeMatrix(2)>>
    /\ ret.exc = "none"
    /\ BagCardinality(ret.val.factors) = 2
    /\ Cardinality(DOMAIN ret.val.factors) = 1

BadGroup ==
    \/ Len(args.group) = 0
    \/ \E i \in DOMAIN args.group : args.group[i] \in WrongShapeMatrices(args.a + args.b)

\* C8: both product functions reject a group that is empty or has a
\* non-square or wrongly sized element at any position before the product
\* loop starts, i.e. by one of the checks ahead of the loop.
Orig_C8_AllElementsChecked ==
    (pc = "done" /\ BadGroup) =>
        /\ ret.exc = "AssertionError" /\ ret.line \in {178, 183, 187}
        /\ locals.exc = "AssertionError" /\ locals.line \in {157, 161, 164}


-----------------------------------------------------------------------------
(* SpecHermPhi: check_phi_is_hermitian_symmmetric on every tuple the fuzz  *)
(* driver generates for max_n = HermMaxN, max_p = HermMaxP.                *)

HermMaxN == 6

HermMaxP == 7

InitHermPhi ==
    /\ pc = "get_phi_gamma_z_w_polarized"
    /\ \E n \in 1..HermMaxN :
        \E a \in 0..n, p \in (n + 1)..HermMaxP :
        \E q \in SeqToSet(combinations(Range(1, p), n)) :
            args = [a |-> a, b |-> n - a, p |-> p, q |-> q]
    /\ locals = <<>>
    /\ ret = NoResult
    /\ calls = <<>>

CallPhiZW ==
    /\ pc = "get_phi_gamma_z_w_polarized"
    /\ locals' = get_phi_gamma_z_w_polarized(args.a, args.b, args.p, args.q)
    /\ pc' = "check_phi_is_hermitian_symmmetric"
    /\ UNCHANGED <<args, ret, calls>>

CallCheckPhiIsHermitian ==
    /\ pc = "check_phi_is_hermitian_symmmetric"
    /\ ret' = check_phi_is_hermitian_symmmetric(args.a, args.b, args.p, args.q)
    /\ pc' = "done"
    /\ UNCHANGED <<args, locals, calls>>

NextHermPhi == CallPhiZW \/ CallCheckPhiIsHermitian

SpecHermPhi == InitHermPhi /\ [][NextHermPhi]_vars

\* The factor of the j-th power (j = 0..p-1) of the generator for the first
\* primitive root exp(2*pi*I/p), written out.
PowerFactor(j) ==
    WrittenFactor(DiagPower(args.q, Exp2PiI(1, args.p), args.p, j), "z", "w", args.a)

\* f with z and w exchanged, conjugated.
SwapConj(f) ==
    ExprConj(ExprSubs(ExprSubs(ExprSubs(f, "z", "t"), "w", "z"), "t", "w"))

-----------------------------------------------------------------------------
(* SpecHerm: is_hermitian_symmetric_polynomial on small polynomials in the *)
(* first entries of z and w and their conjugates.                          *)

HermMaxDeg == 2

HermMaxDim == 2

MatrixSymbol(name, r, c) == [name |-> name, shape |-> <<r, c>>]

HermAtoms == {Atom(n, 1, cj) : n \in {"z", "w"}, cj \in BOOLEAN}

RECURSIVE HermMonomials(_)
HermMonomials(d) ==
    IF d = 0 THEN {ExprInt(1)}
    ELSE HermMonomials(d - 1) \cup
         {ExprMul(m, ExprSym(at)) : m \in HermMonomials(d - 1), at \in HermAtoms}

\* c * monomial for c in {1, I}, and sums of two of them.
HermTerms ==
    {ExprMul(c, m) : c \in {ExprInt(1), Exp2PiI(1, 4)}, m \in HermMonomials(HermMaxDeg)}

HermPolynomials == {ExprAdd(s, t) : s \in HermTerms, t \in HermTerms \cup {ExprInt(0)}}

InitHerm ==
    /\ pc = "is_hermitian_symmetric_polynomial"
    /\ \E f \in HermPolynomials :
       \E rz \in 1..HermMaxDim, rw \in 1..HermMaxDim, c \in 1..2 :
            args = [f |-> f, z |-> MatrixSymbol("z", rz, c), w |-> MatrixSymbol("w", rw, c)]
    /\ locals = <<>>
    /\ ret = NoResult
    /\ calls = <<>>

CallIsHermitianSymmetric ==
    /\ pc = "is_hermitian_symmetric_polynomial"
    /\ ret' = is_hermitian_symmetric_polynomial(args.f, args.z, args.w)
    /\ pc' = "done"
    /\ UNCHANGED <<args, locals, calls>>

NextHerm == CallIsHermitianSymmetric

SpecHerm == InitHerm /\ [][NextHerm]_vars

\* C5: on column symbols of one shape the function returns true exactly
\* when f equals the conjugate of f with z and w exchanged simultaneously.
Orig_C5_HermitianIff ==
    (pc = "done" /\ args.z.shape = args.w.shape /\ args.z.shape[2] = 1) =>
        ret = Return(args.f = SwapConj(args.f))


-----------------------------------------------------------------------------
(* SpecPhiZ: the primitive roots of p and the two invariant polynomials    *)
(* built from the first of them.                                           *)

get_phi_gamma_z(a, b, p, q) ==
    LET z == SymbolVector("z", a + b)
    IN  CHOOSE r \in
          {IF ~(Len(primitive_roots) > 0) THEN RaiseAt("AssertionError", 224)
           ELSE CHOOSE r2 \in
                  {IF group.exc # "none" THEN group
                   ELSE get_phi_gamma_product(z, group.val, a, b)
                   : group \in {get_type_iii_gamma(a, b, p, q, primitive_roots[1])}} : TRUE
           : primitive_roots \in {get_primitive_pth_roots_of_unity(p)}} : TRUE

InitPhiZ ==
    /\ pc = "get_primitive_pth_roots_of_unity"
    /\ \E a \in 0..MaxN, p \in 1..MaxP :
        \E b \in (IF a = 0 THEN 1 ELSE 0)..(MaxN - a) :
        \E q \in Tuples(0..(p - 1), a + b) :
            args = [a |-> a, b |-> b, p |-> p, q |-> q]
    /\ locals = <<>>
    /\ ret = NoResult
    /\ calls = <<>>

CallPrimitiveRoots ==
    /\ pc = "get_primitive_pth_roots_of_unity"
    /\ locals' = get_primitive_pth_roots_of_unity(args.p)
    /\ pc' = "get_phi_gamma_z"
    /\ UNCHANGED <<args, ret, calls>>

CallPhiGammaZ ==
    /\ pc = "get_phi_gamma_z"
    /\ ret' = get_phi_gamma_z(args.a, args.b, args.p, args.q)
    /\ pc' = "get_phi_gamma_z_w_polarized"
    /\ UNCHANGED <<args, locals, calls>>

CallPhiGammaZWPolarized ==
    /\ pc = "get_phi_gamma_z_w_polarized"
    /\ calls' = <<get_phi_gamma_z_w_polarized(args.a, args.b, args.p, args.q)>>
    /\ pc' = "done"
    /\ UNCHANGED <<args, locals, ret>>

NextPhiZ == CallPrimitiveRoots \/ CallPhiGammaZ \/ CallPhiGammaZWPolarized

SpecPhiZ == InitPhiZ /\ [][NextPhiZ]_vars

\* The least m >= 1 with x^m = 1, for a p-th root of unity x.
MultiplicativeOrder(x, p) == CHOOSE m \in 1..p : ExprPow(x, m) = ExprInt(1) /\ \A k \in 1..(m - 1) : ExprPow(x, k) # ExprInt(1)

\* The p-th roots of unity of multiplicative order exactly p.
PrimitiveRootsOfUnity(p) ==
    {x \in {Exp2PiI(k, p) : k \in 0..(p - 1)} : MultiplicativeOrder(x, p) = p}

\* C17: for every p >= 1 the list holds exactly the primitive p-th roots of
\* unity, without repetition, and is non-empty, so that the assertions on
\* its length in get_phi_gamma_z and get_phi_gamma_z_w_polarized pass.
Orig_C17_PrimitiveRoots ==
    (pc = "done") =>
        /\ SeqToSet(locals) = PrimitiveRootsOfUnity(args.p)
        /\ Cardinality(SeqToSet(locals)) = Len(locals)
        /\ Len(locals) > 0
        /\ ret # RaiseAt("AssertionError", 224)
        /\ calls[1] # RaiseAt("AssertionError", 244)

-----------------------------------------------------------------------------
(* Membership in SU(a,b) and the determinant.                              *)

\* A without its first row and its k-th column.
Minor(A, k) ==
    Matrix(A.shape[1] - 1, A.shape[2] - 1,
           [i \in 1..(A.shape[1] - 1) |-> [j \in 1..(A.shape[2] - 1) |->
               A.e[i + 1][IF j < k THEN j ELSE j + 1]]])

\* The determinant of a square matrix, expanded along the first row.
RECURSIVE Det(_)
Det(A) ==
    IF A.shape[1] = 0 THEN ExprInt(1)
    ELSE ExprSum([k \in 1..A.shape[1] |->
                    ExprMul(ExprInt(IF k % 2 = 1 THEN 1 ELSE -1),
                            ExprMul(A.e[1][k], Det(Minor(A, k))))],
                 A.shape[1])

\* I_{a,b} = diag(1, .., 1, -1, .., -1) with a ones and b minus ones.
SignatureMatrix(a, b) ==
    Matrix(a + b, a + b,
           [i \in 1..(a + b) |-> [k \in 1..(a + b) |->
               IF i # k THEN ExprInt(0) ELSE IF i <= a THEN ExprInt(1) ELSE ExprInt(-1)]])

InSUAB(A, a, b) ==
    /\ is_square(A)
    /\ A.shape[1] = a + b
    /\ MatMul(MatMul(Dagger(A), SignatureMatrix(a, b)), A) = SignatureMatrix(a, b)
    /\ Det(A) = ExprInt(1)

\* C18: is_in_SU_AB answers membership in SU(a,b), determinant 1 included,
\* for every element of a type III group.
Orig_C18_DeterminantOne ==
    (pc \in {"check_type_iii_gamma_is_subset_of_SU_AB", "done"} /\ args.a + args.b >= 1) =>
        \A j \in DOMAIN locals :
            locals[j] = Return(InSUAB(ret.val[j], args.a, args.b))


-----------------------------------------------------------------------------
(* Python strings, as sequences of characters, and sy.symbols.             *)

DigitChars == <<"0", "1", "2", "3", "4", "5", "6", "7", "8", "9">>

IsDigit(c) == \E i \in DOMAIN DigitChars : DigitChars[i] = c

DigitValue(c) == (CHOOSE i \in DOMAIN DigitChars : DigitChars[i] = c) - 1

\* str(n) for n >= 0.
RECURSIVE StrInt(_)
StrInt(n) == IF n < 10 THEN <<DigitChars[n + 1]>> ELSE StrInt(n \div 10) \o <<DigitChars[(n % 10) + 1]>>

\* int(s) for a string of digits.
RECURSIVE IntStr(_)
IntStr(s) == IF Len(s) = 0 THEN 0 ELSE 10 * IntStr(SubSeq(s, 1, Len(s) - 1)) + DigitValue(s[Len(s)])

\* The concatenation of a sequence of sequences.
RECURSIVE ConcatAll(_)
ConcatAll(ss) == IF Len(ss) = 0 THEN <<>> ELSE Head(ss) \o ConcatAll(Tail(ss))

\* sep.join(parts)
RECURSIVE StrJoin(_, _)
StrJoin(sep, parts) ==
    IF Len(parts) = 0 THEN <<>>
    ELSE IF Len(parts) = 1 THEN parts[1]
    ELSE parts[1] \o sep \o StrJoin(sep, Tail(parts))

\* s.replace(old, new): the occurrences of old from the left, not overlapping.
RECURSIVE StrReplace(_, _, _)
StrReplace(s, old, new) ==
    LET at(i) == SubSeq(s, i, i + Len(old) - 1) = old
        n     == Len(s) - Len(old) + 1
    IN  IF \A i \in 1..n : ~at(i) THEN s
        ELSE LET k == CHOOSE i \in 1..n : at(i) /\ \A j \in 1..(i - 1) : ~at(j)
             IN  SubSeq(s, 1, k - 1) \o new
                    \o StrReplace(SubSeq(s, k + Len(old), Len(s)), old, new)

\* str(t) for a tuple of non-negative integers: "()", "(0,)", "(0, 1)".
StrTuple(t) ==
    IF Len(t) = 0 THEN <<"(", ")">>
    ELSE IF Len(t) = 1 THEN <<"(">> \o StrInt(t[1]) \o <<",", ")">>
    ELSE <<"(">> \o StrJoin(<<",", " ">>, [i \in 1..Len(t) |-> StrInt(t[i])]) \o <<")">>

\* s.split(sep) for a one-character separator: the fields between separators.
RECURSIVE StrSplit(_, _)
StrSplit(s, sep) ==
    IF \A i \in DOMAIN s : s[i] # sep THEN <<s>>
    ELSE LET k == CHOOSE i \in DOMAIN s : s[i] = sep /\ \A j \in 1..(i - 1) : s[j] # sep
         IN  <<SubSeq(s, 1, k - 1)>> \o StrSplit(SubSeq(s, k + 1, Len(s)), sep)

\* s.split(): the non-empty fields between runs of spaces.
StrFields(s) == SelectSeq(StrSplit(s, " "), LAMBDA f : Len(f) > 0)

\* s.strip()
RECURSIVE StrStrip(_)
StrStrip(s) ==
    IF Len(s) = 0 THEN s
    ELSE IF s[1] = " " THEN StrStrip(Tail(s))
    ELSE IF s[Len(s)] = " " THEN StrStrip(SubSeq(s, 1, Len(s) - 1))
    ELSE s

\* The characters that stand for the escaped "\,", "\:" and "\ " while
\* sy.symbols splits its argument (chr(0), chr(1), chr(2) in the library).
LitComma == "chr(0)"

LitColon == "chr(1)"

LitSpace == "chr(2)"

MarkLiterals(names) ==
    StrReplace(StrReplace(StrReplace(names, <<"\\", ",">>, <<LitComma>>),
                          <<"\\", ":">>, <<LitColon>>),
               <<"\\", " ">>, <<LitSpace>>)

\* literal(s) of sy.symbols: the marked characters without their backslash.
UnmarkLiterals(s) ==
    [i \in 1..Len(s) |-> IF s[i] = LitComma THEN ","
                         ELSE IF s[i] = LitColon THEN ":"
                         ELSE IF s[i] = LitSpace THEN " " ELSE s[i]]

\* sy.Symbol(name)
Symbol(name) == Atom(name, 0, FALSE)

\* The names of one token of sy.symbols with a numeric range
\* "prefix lo:hi suffix" (the range is [0-9]*:[0-9]+), lo counted from 0 when
\* it is missing.
RangeNames(name) ==
    LET c  == CHOOSE i \in DOMAIN name : name[i] = ":" /\ \A j \in 1..(i - 1) : name[j] # ":"
        s  == CHOOSE i \in 1..c : (\A j \in i..(c - 1) : IsDigit(name[j]))
                                  /\ (i = 1 \/ ~IsDigit(name[i - 1]))
        e  == CHOOSE i \in c..Len(name) : (\A j \in (c + 1)..i : IsDigit(name[j]))
                                  /\ (i = Len(name) \/ ~IsDigit(name[i + 1]))
        lo == IntStr(SubSeq(name, s, c - 1))
        hi == IntStr(SubSeq(name, c + 1, e))
        r  == Range(lo, hi)
    IN  [k \in 1..Len(r) |-> SubSeq(name, 1, s - 1) \o StrInt(r[k]) \o SubSeq(name, e + 1, Len(name))]

\* The symbols of the tokens from the i-th on; a token with a non-empty range
\* makes the result a sequence (seq = True).
RECURSIVE SymbolsOfTokens(_, _)
SymbolsOfTokens(tokens, i) ==
    IF i > Len(tokens) THEN [seq |-> FALSE, result |-> <<>>]
    ELSE CHOOSE r \in
           {IF \A j \in DOMAIN tokens[i] : tokens[i][j] # ":"
            THEN [rest EXCEPT !.result = <<Symbol(UnmarkLiterals(tokens[i]))>> \o @]
            ELSE CHOOSE r2 \in
                   {[seq    |-> rest.seq \/ Len(ns) > 0,
                     result |-> [k \in 1..Len(ns) |-> Symbol(UnmarkLiterals(ns[k]))] \o rest.result]
                    : ns \in {RangeNames(tokens[i])}} : TRUE
            : rest \in {SymbolsOfTokens(tokens, i + 1)}} : TRUE

\* sy.symbols(names): split on the commas and the spaces that are not
\* escaped, expand the ranges; one symbol alone is returned as it is
\* (kind "symbol"), several, or the symbols of a range, as a tuple.
symbols(names) ==
    LET marked == StrStrip(MarkLiterals(names))
        as_seq == Len(marked) > 0 /\ marked[Len(marked)] = ","
        body   == IF as_seq THEN StrStrip(SubSeq(marked, 1, Len(marked) - 1)) ELSE marked
        fields == StrSplit(body, ",")
        tokens == ConcatAll([i \in 1..Len(fields) |-> StrFields(fields[i])])
    IN  IF Len(body) = 0 THEN Raise("ValueError")
        ELSE IF \E i \in DOMAIN fields : Len(StrStrip(fields[i])) = 0 THEN Raise("ValueError")
        ELSE CHOOSE r \in
               {IF ~(as_seq \/ st.seq) /\ Len(st.result) <= 1
                THEN (IF Len(st.result) = 0 THEN Return([kind |-> "tuple", val |-> <<>>])
                      ELSE Return([kind |-> "symbol", val |-> st.result[1]]))
                ELSE Return([kind |-> "tuple", val |-> st.result])
                : st \in {SymbolsOfTokens(tokens, 1)}} : TRUE


-----------------------------------------------------------------------------
(* Multiindices, vector symbols, coefficients and the generic polynomial.  *)

\* Mutant of product: the first position varies fastest.
RECURSIVE product_first_fastest(_)
product_first_fastest(seqs) ==
    IF Len(seqs) = 0 THEN <<<<>>>>
    ELSE CHOOSE r \in
           {ConcatAll([j \in 1..Len(rest) |->
                          [i \in 1..Len(seqs[1]) |-> <<seqs[1][i]>> \o rest[j]]])
            : rest \in {product_first_fastest(Tail(seqs))}} : TRUE

\* itertools.product(*seqs): the tuples with one element of every sequence,
\* the last position varying fastest.
RECURSIVE product(_)
product(seqs) ==
    IF Len(seqs) = 0 THEN <<<<>>>>
    ELSE CHOOSE r \in
           {ConcatAll([i \in 1..Len(seqs[1]) |->
                          [j \in 1..Len(rest) |-> <<seqs[1][i]>> \o rest[j]]])
            : rest \in {product(Tail(seqs))}} : TRUE

\* itertools.product(pool, repeat=n)
product_repeat(pool, n) == product([k \in 1..n |-> pool])

get_multiindices_multivariate(arity, dim, degree) ==
    SubSeq([k \in 1..arity |-> product_repeat(Range(0, degree + 1), dim)], 1, arity)

get_multiindex_combinations(arity, dim, degree) ==
    product(get_multiindices_multivariate(arity, dim, degree))

\* A dict as the sequence of its <<key, value>> items in insertion order:
\* d[k] = v replaces the value of a key already present and keeps its place.
DictSet(d, k, v) ==
    IF \E i \in DOMAIN d : d[i][1] = k
    THEN [i \in DOMAIN d |-> IF d[i][1] = k THEN <<k, v>> ELSE d[i]]
    ELSE Append(d, <<k, v>>)

DictHas(d, k) == \E i \in DOMAIN d : d[i][1] = k

DictGet(d, k) == d[CHOOSE i \in DOMAIN d : d[i][1] = k][2]

\* The dict of a dict display {k1: v1, k2: v2, ...}, from the i-th item on.
RECURSIVE DictDisplay(_, _, _)
DictDisplay(items, i, d) ==
    IF i > Len(items) THEN d
    ELSE DictDisplay(items, i + 1, DictSet(d, items[i][1], items[i][2]))

\* f"\\{COMPLEX_MACRO_NAME}{{c}}"
MathFrak(c) == <<"\\", "m", "a", "t", "h", "f", "r", "a", "k", "{", c, "}">>

\* The eight items of the display of LETTERS, in the order written.
LETTERS_display ==
    << <<MathFrak("z"), <<"x", "y">>>>,
       <<MathFrak("w"), <<"r", "s">>>>,
       <<MathFrak("u"), <<"u", "v">>>>,
       <<MathFrak("p"), <<"p", "q">>>>,
       <<MathFrak("m"), <<"m", "n">>>>,
       <<MathFrak("m"), <<"m", "n">>>>,
       <<MathFrak("c"), <<"a", "b">>>>,
       <<MathFrak("j"), <<"j", "k">>>> >>

LETTERS == DictDisplay(LETTERS_display, 1, <<>>)

\* f"{name}_{{1:{dim + 1}}}"
RangeToken(name, dim) == name \o <<"_", "{", "1", ":">> \o StrInt(dim + 1) \o <<"}">>

ImaginaryUnit == Exp2PiI(1, 4)

\* re + sy.I * im
ComplexOf(re, im) == ExprAdd(ExprSym(re), ExprMul(ImaginaryUnit, ExprSym(im)))

get_complex_vector_symbols(arity, dim) ==
    IF ~(arity < Len(LETTERS)) THEN RaiseAt("AssertionError", 420)
    ELSE LET items == SubSeq(LETTERS, 1, arity)
             re_tokens == [i \in 1..Len(items) |-> RangeToken(<<items[i][2][1]>>, dim)]
             im_tokens == [i \in 1..Len(items) |-> RangeToken(<<items[i][2][2]>>, dim)]
             complex_tokens == [i \in 1..Len(items) |-> RangeToken(items[i][1], dim)]
         IN  CHOOSE r \in
               {IF flat_re_symbols.exc # "none" THEN RaiseAt(flat_re_symbols.exc, 424)
                ELSE IF flat_im_symbols.exc # "none" THEN RaiseAt(flat_im_symbols.exc, 425)
                ELSE IF flat_complex_symbols.exc # "none" THEN RaiseAt(flat_complex_symbols.exc, 426)
                ELSE IF flat_re_symbols.val.kind # "tuple" \/ flat_im_symbols.val.kind # "tuple"
                     THEN RaiseAt("TypeError", 427)
                ELSE IF flat_complex_symbols.val.kind # "tuple" THEN RaiseAt("TypeError", 428)
                ELSE LET re == flat_re_symbols.val.val
                         im == flat_im_symbols.val.val
                         zs == flat_complex_symbols.val.val
                         n  == IF Len(re) < Len(im) THEN Len(re) ELSE Len(im)
                         flat_symbols == [i \in 1..n |-> ComplexOf(re[i], im[i])]
                         nz == IF Len(zs) < n THEN Len(zs) ELSE n
                         complex_map == DictDisplay([i \in 1..nz |-> <<flat_symbols[i], zs[i]>>], 1, <<>>)
                     IN  IF n # arity * dim THEN RaiseAt("ValueError", 429)
                         ELSE Return([symbols |-> [j \in 1..arity |->
                                        SubSeq(flat_symbols, (j - 1) * dim + 1, j * dim)],
                                      complex_map |-> complex_map])
                : flat_re_symbols \in {symbols(StrJoin(<<" ">>, re_tokens))},
                  flat_im_symbols \in {symbols(StrJoin(<<" ">>, im_tokens))},
                  flat_complex_symbols \in {symbols(StrJoin(<<" ">>, complex_tokens))}} : TRUE

\* The product over k of vector[k] ** multiindex[k], from the k-th factor on.
RECURSIVE UnivariateMonomial(_, _, _)
UnivariateMonomial(vector, multiindex, k) ==
    IF k > Len(multiindex) THEN ExprInt(1)
    ELSE ExprMul(ExprPow(vector[k], multiindex[k]), UnivariateMonomial(vector, multiindex, k + 1))

\* The product over j of the univariate monomials of symbols[j].
RECURSIVE MultivariateMonomial(_, _, _)
MultivariateMonomial(vectors, monom_multiindices, j) ==
    IF j > Len(monom_multiindices) THEN ExprInt(1)
    ELSE ExprMul(UnivariateMonomial(vectors[j], monom_multiindices[j], 1),
                 MultivariateMonomial(vectors, monom_multiindices, j + 1))

RECURSIVE MonomialsLoop(_, _, _, _)
MonomialsLoop(multiindex_combinations, i, vectors, monomials) ==
    IF i > Len(multiindex_combinations) THEN Return(monomials)
    ELSE IF Len(multiindex_combinations[i]) # Len(vectors) THEN RaiseAt("AssertionError", 439)
    ELSE MonomialsLoop(multiindex_combinations, i + 1, vectors,
             DictSet(monomials, multiindex_combinations[i],
                     MultivariateMonomial(vectors, multiindex_combinations[i], 1)))

get_monomials(arity, dim, degree) ==
    CHOOSE r \in
      {IF vs.exc # "none" THEN vs
       ELSE CHOOSE r2 \in
              {IF monomials.exc # "none" THEN monomials
               ELSE Return([monomials |-> monomials.val, complex_map |-> vs.val.complex_map])
               : monomials \in {MonomialsLoop(multiindex_combinations, 1, vs.val.symbols, <<>>)}} : TRUE
       : multiindex_combinations \in {get_multiindex_combinations(arity, dim, degree)},
         vs \in {get_complex_vector_symbols(arity, dim)}} : TRUE

\* "{" + r"\,".join(str(multiindex).replace(", ", r"\,") ...) + "}"
SubscriptConstructor(monom_multiindices) ==
    <<"{">> \o StrJoin(<<"\\", ",">>,
                       [j \in 1..Len(monom_multiindices) |->
                           StrReplace(StrTuple(monom_multiindices[j]), <<",", " ">>, <<"\\", ",">>)])
            \o <<"}">>

\* One coefficient re + sy.I * im; sy.symbols gives a tuple, which has no
\* product with sy.I, when the name holds a comma that is not escaped.
CoefficientSymbol(monom_multiindices) ==
    CHOOSE r \in
      {IF re_symbol.exc # "none" THEN RaiseAt(re_symbol.exc, 467)
       ELSE IF im_symbol.exc # "none" THEN RaiseAt(im_symbol.exc, 468)
       ELSE IF re_symbol.val.kind # "symbol" \/ im_symbol.val.kind # "symbol"
            THEN RaiseAt("TypeError", 469)
       ELSE Return(ComplexOf(re_symbol.val.val, im_symbol.val.val))
       : re_symbol \in {symbols(<<"a", "_">> \o SubscriptConstructor(monom_multiindices))},
         im_symbol \in {symbols(<<"b", "_">> \o SubscriptConstructor(monom_multiindices))}} : TRUE

RECURSIVE CoefficientsLoop(_, _, _)
CoefficientsLoop(multiindex_combinations, i, coeffs) ==
    IF i > Len(multiindex_combinations) THEN Return(coeffs)
    ELSE CHOOSE r \in
           {IF symbol.exc # "none" THEN symbol
            ELSE CoefficientsLoop(multiindex_combinations, i + 1,
                                  DictSet(coeffs, multiindex_combinations[i], symbol.val))
            : symbol \in {CoefficientSymbol(multiindex_combinations[i])}} : TRUE

get_coefficient_array_for_polynomial(arity, dim, degree) ==
    CHOOSE r \in
      {CoefficientsLoop(multiindex_combinations, 1, <<>>)
       : multiindex_combinations \in {get_multiindex_combinations(arity, dim, degree)}} : TRUE

RECURSIVE PolynomialLoop(_, _, _, _)
PolynomialLoop(coeffs, monoms, i, poly) ==
    IF i > Len(monoms) THEN Return(poly)
    ELSE IF ~DictHas(coeffs, monoms[i][1]) THEN RaiseAt("AssertionError", 482)
    ELSE PolynomialLoop(coeffs, monoms, i + 1,
                        ExprAdd(poly, ExprMul(monoms[i][2], DictGet(coeffs, monoms[i][1]))))

get_polynomial_in_terms_of_re_im_components(arity, dim, degree) ==
    CHOOSE r \in
      {IF coeffs.exc # "none" THEN coeffs
       ELSE CHOOSE r2 \in
              {IF ms.exc # "none" THEN ms
               ELSE IF Len(coeffs.val) # Len(ms.val.monomials) THEN RaiseAt("AssertionError", 479)
               ELSE CHOOSE r3 \in
                      {IF poly.exc # "none" THEN poly
                       ELSE Return([poly |-> poly.val, complex_map |-> ms.val.complex_map])
                       : poly \in {PolynomialLoop(coeffs.val, ms.val.monomials, 1, ExprInt(1))}} : TRUE
               : ms \in {get_monomials(arity, dim, degree)}} : TRUE
       : coeffs \in {get_coefficient_array_for_polynomial(arity, dim, degree)}} : TRUE


-----------------------------------------------------------------------------
(* SpecPoly: the functions of the coefficient indexing on (arity, dim,     *)
(* degree), each called on the same arguments.                             *)

PolyMaxArity == 9

PolyMaxDim == 2

PolyMaxDegree == 2

\* The largest number of multiindex combinations of a call.
PolyMaxMonoms == 16

RECURSIVE IntPow(_, _)
IntPow(x, n) == IF n = 0 THEN 1 ELSE x * IntPow(x, n - 1)

\* x^n, not multiplied further once it exceeds cap.
RECURSIVE PowUpTo(_, _, _)
PowUpTo(x, n, cap) ==
    IF n = 0 THEN 1
    ELSE CHOOSE r \in {IF y > cap THEN y ELSE x * y : y \in {PowUpTo(x, n - 1, cap)}} : TRUE

InitPoly ==
    /\ pc = "get_multiindices_multivariate"
    /\ \E arity \in 1..PolyMaxArity, dim \in 1..PolyMaxDim, degree \in 0..PolyMaxDegree :
        /\ PowUpTo(degree + 1, dim * arity, PolyMaxMonoms) <= PolyMaxMonoms
        /\ args = [arity |-> arity, dim |-> dim, degree |-> degree]
    /\ locals = [multiindices |-> NoResult, combinations |-> NoResult, symbols |-> NoResult,
                 coeffs |-> NoResult, monoms |-> NoResult]
    /\ ret = NoResult
    /\ calls = <<>>

CallMultiindicesMultivariate ==
    /\ pc = "get_multiindices_multivariate"
    /\ locals' = [locals EXCEPT !.multiindices =
                     Return(get_multiindices_multivariate(args.arity, args.dim, args.degree))]
    /\ pc' = "get_multiindex_combinations"
    /\ UNCHANGED <<args, ret, calls>>

CallMultiindexCombinations ==
    /\ pc = "get_multiindex_combinations"
    /\ locals' = [locals EXCEPT !.combinations =
                     Return(get_multiindex_combinations(args.arity, args.dim, args.degree))]
    /\ pc' = "get_complex_vector_symbols"
    /\ UNCHANGED <<args, ret, calls>>

CallComplexVectorSymbols ==
    /\ pc = "get_complex_vector_symbols"
    /\ locals' = [locals EXCEPT !.symbols = get_complex_vector_symbols(args.arity, args.dim)]
    /\ pc' = "get_coefficient_array_for_polynomial"
    /\ UNCHANGED <<args, ret, calls>>

CallCoefficientArray ==
    /\ pc = "get_coefficient_array_for_polynomial"
    /\ locals' = [locals EXCEPT !.coeffs =
                     get_coefficient_array_for_polynomial(args.arity, args.dim, args.degree)]
    /\ pc' = "get_monomials"
    /\ UNCHANGED <<args, ret, calls>>

CallMonomials ==
    /\ pc = "get_monomials"
    /\ locals' = [locals EXCEPT !.monoms = get_monomials(args.arity, args.dim, args.degree)]
    /\ pc' = "get_polynomial_in_terms_of_re_im_components"
    /\ UNCHANGED <<args, ret, calls>>

CallPolynomial ==
    /\ pc = "get_polynomial_in_terms_of_re_im_components"
    /\ ret' = get_polynomial_in_terms_of_re_im_components(args.arity, args.dim, args.degree)
    /\ pc' = "done"
    /\ UNCHANGED <<args, locals, calls>>

NextPoly ==
    \/ CallMultiindicesMultivariate
    \/ CallMultiindexCombinations
    \/ CallComplexVectorSymbols
    \/ CallCoefficientArray
    \/ CallMonomials
    \/ CallPolynomial

SpecPoly == InitPoly /\ [][NextPoly]_vars

-----------------------------------------------------------------------------
(* Claims about the coefficient indexing.                                  *)

\* s comes before t in the lexicographic order of integer tuples of one length.
TupleLess(s, t) ==
    \E i \in DOMAIN s : s[i] < t[i] /\ \A j \in 1..(i - 1) : s[j] = t[j]

\* A family of multiindices as one tuple of integers.
FlatTuple(c) == ConcatAll(c)

\* The multiindices of length dim with entries 0..degree.
Multiindices(dim, degree) == [1..dim -> 0..degree]

\* C11: get_multiindices_multivariate returns arity times the sequence of
\* [0..degree]^dim in lexicographic order, and get_multiindex_combinations
\* the (degree+1)^(dim*arity) arity-tuples of multiindices in lexicographic
\* order, hence pairwise distinct.
Thm_C11_Multiindices ==
    (locals.combinations.exc = "none") =>
        LET m == locals.multiindices.val
            c == locals.combinations.val
        IN  /\ Len(m) = args.arity
            /\ \A k \in DOMAIN m :
                  /\ Len(m[k]) = IntPow(args.degree + 1, args.dim)
                  /\ SeqToSet(m[k]) = Multiindices(args.dim, args.degree)
                  /\ \A i \in 1..(Len(m[k]) - 1) : TupleLess(m[k][i], m[k][i + 1])
            /\ Len(c) = IntPow(args.degree + 1, args.dim * args.arity)
            /\ SeqToSet(c) = [1..args.arity -> Multiindices(args.dim, args.degree)]
            /\ \A i \in 1..(Len(c) - 1) : TupleLess(FlatTuple(c[i]), FlatTuple(c[i + 1]))

Wit_C11_Multiindices ==
    /\ args = [arity |-> 2, dim |-> 1, degree |-> 1]
    /\ locals.combinations =
          Return(<< <<<<0>>, <<0>>>>, <<<<0>>, <<1>>>>, <<<<1>>, <<0>>>>, <<<<1>>, <<1>>>> >>)

\* The names of the symbols in an expression.
SymbolNames(x) == UNION {{at[1] : at \in DOMAIN t.mon} : t \in x}

\* C13: the coefficient map has exactly the multiindex combinations as its
\* keys, (degree+1)^(dim*arity) of them, every value is re + i*im for two
\* symbols, and different keys have different symbols.
Orig_C13_CoefficientArray ==
    (pc \in {"get_monomials", "get_polynomial_in_terms_of_re_im_components", "done"}) =>
        /\ locals.coeffs.exc = "none"
        /\ LET d == locals.coeffs.val
           IN  /\ Len(d) = IntPow(args.degree + 1, args.dim * args.arity)
               /\ {d[i][1] : i \in DOMAIN d} = SeqToSet(locals.combinations.val)
               /\ \A i \in DOMAIN d :
                     \E re, im \in SymbolNames(d[i][2]) :
                        re # im /\ d[i][2] = ComplexOf(Symbol(re), Symbol(im))
               /\ \A i, j \in DOMAIN d :
                     i # j => SymbolNames(d[i][2]) \cap SymbolNames(d[j][2]) = {}

\* sum over the combinations c[1..i] of coeff[c] * monomial[c]
RECURSIVE TermSum(_, _, _)
TermSum(coeffs, monoms, i) ==
    IF i = 0 THEN ExprInt(0)
    ELSE ExprAdd(TermSum(coeffs, monoms, i - 1),
                 ExprMul(DictGet(coeffs, monoms[i][1]), monoms[i][2]))

\* C14: get_monomials has one monomial per multiindex combination, the
\* product of the powers of the components, and the polynomial is 1 plus the
\* sum of coefficient times monomial over all combinations; no assertion of
\* the assembly fails.
Orig_C14_PolynomialAssembly ==
    (pc = "done") =>
        /\ locals.monoms.exc = "none"
        /\ LET ms == locals.monoms.val.monomials
           IN  /\ Len(ms) = IntPow(IntPow(args.degree + 1, args.dim), args.arity)
               /\ {ms[i][1] : i \in DOMAIN ms} = SeqToSet(locals.combinations.val)
               /\ \A i \in DOMAIN ms :
                     ms[i][2] = MultivariateMonomial(locals.symbols.val.symbols, ms[i][1], 1)
               /\ ret.exc = "none"
               /\ ret.val.poly = ExprAdd(ExprInt(1), TermSum(locals.coeffs.val, ms, Len(ms)))

\* C15: for every arity from 1 through 8 get_complex_vector_symbols returns
\* arity vectors of dim components with pairwise different names, and
\* get_monomials returns as well.
Orig_C15_EightVectorSymbols ==
    (pc = "done" /\ args.arity <= 8) =>
        /\ locals.symbols.exc = "none"
        /\ locals.monoms.exc = "none"
        /\ LET v == locals.symbols.val.symbols
           IN  /\ Len(v) = args.arity
               /\ \A j \in DOMAIN v : Len(v[j]) = args.dim
               /\ \A j1, j2 \in DOMAIN v : \A k1 \in DOMAIN v[j1], k2 \in DOMAIN v[j2] :
                     <<j1, k1>> # <<j2, k2>> =>
                        SymbolNames(v[j1][k1]) \cap SymbolNames(v[j2][k2]) = {}

-----------------------------------------------------------------------------
(* Monomials of vector symbols. A vector symbol is sy.MatrixSymbol(name,   *)
(* dim, 1) or the conjugate of one; its explicit form is the list of its   *)
(* dim entries, entry k being the atom (name, k, conj). A dimension of 0   *)
(* is a legal MatrixSymbol and has no entries.                             *)

VectorSymbol(name, dim) == [name |-> name, shape |-> <<dim, 1>>, conj |-> FALSE]

\* sy.conjugate(z_sym): the symbol whose entries are the conjugates.
conjugate(m) == [m EXCEPT !.conj = TRUE]

\* symb.as_explicit(), flat in row order.
as_explicit(m) ==
    SubSeq([k \in 1..(m.shape[1] * m.shape[2]) |-> ExprSym(Atom(m.name, k, m.conj))],
           1, m.shape[1] * m.shape[2])

\* The loop of get_vector_component_map from symbs[i] on, with the current
\* values of dim and vector_component_map.
RECURSIVE VectorComponentLoop(_, _, _, _)
VectorComponentLoop(symbs, i, dim, vector_component_map) ==
    IF i > Len(symbs) THEN Return(vector_component_map)
    ELSE CHOOSE r \in
           {IF (IF dim = 0 THEN Len(m) ELSE dim) # Len(m)
            THEN RaiseAt("AssertionError", 312)
            ELSE VectorComponentLoop(symbs, i + 1, IF dim = 0 THEN Len(m) ELSE dim,
                                     DictSet(vector_component_map, symbs[i], m))
            : m \in {as_explicit(symbs[i])}} : TRUE

get_vector_component_map(symbs) ==
    IF ~(Len(symbs) > 0) THEN RaiseAt("AssertionError", 303)
    ELSE VectorComponentLoop(symbs, 1, 0, <<>>)

\* The product over zip(multiindex, components) of component ** index, from
\* the k-th pair on; zip stops at the shorter of the two.
RECURSIVE ComponentMonomial_first_only(_, _, _)
ComponentMonomial_first_only(multiindex, components, k) ==
    IF k > Len(multiindex) \/ k > Len(components) \/ k > 1 THEN ExprInt(1)
    ELSE ExprMul(ExprPow(components[k], multiindex[k]),
                 ComponentMonomial_first_only(multiindex, components, k + 1))

RECURSIVE ComponentMonomial(_, _, _)
ComponentMonomial(multiindex, components, k) ==
    IF k > Len(multiindex) \/ k > Len(components) THEN ExprInt(1)
    ELSE ExprMul(ExprPow(components[k], multiindex[k]),
                 ComponentMonomial(multiindex, components, k + 1))

\* The set monomials of one symbol: one monomial per multiindex, unless a
\* multiindex and the components differ in length. The variant leaves out
\* the multiindex of zeros.
SymbolMonomials_without_one(multiindices, components) ==
    IF \E i \in DOMAIN multiindices : Len(multiindices[i]) # Len(components)
    THEN RaiseAt("AssertionError", 336)
    ELSE Return({ComponentMonomial(multiindices[i], components, 1) :
                    i \in {j \in DOMAIN multiindices :
                              \E k \in DOMAIN multiindices[j] : multiindices[j][k] # 0}})

SymbolMonomials(multiindices, components) ==
    IF \E i \in DOMAIN multiindices : Len(multiindices[i]) # Len(components)
    THEN RaiseAt("AssertionError", 336)
    ELSE Return({ComponentMonomial(multiindices[i], components, 1) : i \in DOMAIN multiindices})

\* The loop that fills symbol_monomials_map, from the i-th item of
\* vector_component_map on.
RECURSIVE SymbolMonomialsLoop(_, _, _, _)
SymbolMonomialsLoop(vector_component_map, i, multiindices, symbol_monomials_map) ==
    IF i > Len(vector_component_map) THEN Return(symbol_monomials_map)
    ELSE CHOOSE r \in
           {IF ms.exc # "none" THEN ms
            ELSE SymbolMonomialsLoop(vector_component_map, i + 1, multiindices,
                    DictSet(symbol_monomials_map, vector_component_map[i][1], ms.val))
            : ms \in {SymbolMonomials(multiindices, vector_component_map[i][2])}} : TRUE

\* symbol_monomials_map of get_multivariate_monomials when line 343 is
\* reached, or the exception raised before.
symbol_monomials_map(symbs, degree) ==
    IF ~(Len(symbs) > 0) THEN RaiseAt("AssertionError", 322)
    ELSE CHOOSE r \in
           {IF vcm.exc # "none" THEN vcm
            ELSE SymbolMonomialsLoop(vcm.val, 1,
                    product_repeat(Range(0, degree + 1), Len(vcm.val[1][2])), <<>>)
            : vcm \in {get_vector_component_map(symbs)}} : TRUE

\* itertools.product(*symbol_monomials_map.values()) as a set: the result
\* of the function is a set, so the order of the tuples does not matter.
multivariate_tuples(map) ==
    {t \in [DOMAIN map -> UNION {map[i][2] : i \in DOMAIN map}] :
        \A i \in DOMAIN map : t[i] \in map[i][2]}

\* The product of the first k monomials of a tuple.
RECURSIVE PrefixProduct(_, _)
PrefixProduct(multivariate_tuple, k) ==
    IF k = 0 THEN ExprInt(1)
    ELSE ExprMul(PrefixProduct(multivariate_tuple, k - 1), multivariate_tuple[k])

get_multivariate_monomials(symbs, degree) ==
    CHOOSE r \in
      {IF smm.exc # "none" THEN smm
       ELSE Return({PrefixProduct(t, k) : t \in multivariate_tuples(smm.val),
                                          k \in 1..Len(smm.val)})
       : smm \in {symbol_monomials_map(symbs, degree)}} : TRUE

\* functools.reduce(lambda x, y: x + y, mons) on a non-empty set: the sum of
\* its elements, which does not depend on the order of the iteration.
SumOfSet(mons) == Collect(UNION {{<<m, t>> : t \in m} : m \in mons})

\* Variant that pairs z_sym with itself.
get_polynomial_in_z_z_bar_no_conjugate(z_sym, degree) ==
    CHOOSE r \in
      {IF vcm.exc # "none" THEN vcm
       ELSE IF mons.exc # "none" THEN mons
       ELSE IF mons.val = {} THEN RaiseAt("TypeError", 504)
       ELSE Return(SumOfSet(mons.val))
       : vcm \in {get_vector_component_map(<<z_sym, z_sym>>)},
         mons \in {get_multivariate_monomials(<<z_sym, z_sym>>, degree)}} : TRUE

get_polynomial_in_z_z_bar(z_sym, degree) ==
    CHOOSE r \in
      {IF vcm.exc # "none" THEN vcm
       ELSE IF mons.exc # "none" THEN mons
       ELSE IF mons.val = {} THEN RaiseAt("TypeError", 504)
       ELSE Return(SumOfSet(mons.val))
       : vcm \in {get_vector_component_map(<<z_sym, conjugate(z_sym)>>)},
         mons \in {get_multivariate_monomials(<<z_sym, conjugate(z_sym)>>, degree)}} : TRUE

-----------------------------------------------------------------------------
(* SpecMonomials: the monomial functions on a list of vector symbols and a *)
(* degree. A name stands for one symbol in a list, as in sympy two         *)
(* MatrixSymbols of one name and different shapes are different symbols.   *)

MonMaxArity == 2

MonMaxDim == 2

MonMaxDegree == 2

\* The largest number of tuples of per-symbol monomials of a call.
MonMaxMonoms == 81

MonNames == {"z", "w"}

MonSymbols == {VectorSymbol(n, d) : n \in MonNames, d \in 0..MonMaxDim}

MonLists ==
    {l \in UNION {[1..n -> MonSymbols] : n \in 1..MonMaxArity} :
        \A i, j \in DOMAIN l : l[i].name = l[j].name => l[i] = l[j]}

\* The sum of the dimensions of symbs[i..].
RECURSIVE TotalDim(_, _)
TotalDim(symbs, i) ==
    IF i > Len(symbs) THEN 0 ELSE symbs[i].shape[1] + TotalDim(symbs, i + 1)

\* The calls on (symbs, degree) multiply at most MonMaxMonoms tuples of
\* per-symbol monomials, for symbs and for symbs[1] with its conjugate.
MonWithinBound(symbs, degree) ==
    /\ PowUpTo(degree + 1, TotalDim(symbs, 1), MonMaxMonoms) <= MonMaxMonoms
    /\ PowUpTo(degree + 1, 2 * symbs[1].shape[1], MonMaxMonoms) <= MonMaxMonoms

InitMonomials ==
    /\ pc = "get_vector_component_map"
    /\ \E symbs \in MonLists, degree \in (0 - 1)..MonMaxDegree :
        /\ MonWithinBound(symbs, degree)
        /\ args = [symbs |-> symbs, degree |-> degree]
    /\ locals = [vector_component_map |-> NoResult, symbol_monomials_map |-> NoResult]
    /\ ret = NoResult
    /\ calls = <<>>

CallVectorComponentMap ==
    /\ pc = "get_vector_component_map"
    /\ locals' = [locals EXCEPT !.vector_component_map = get_vector_component_map(args.symbs)]
    /\ pc' = "get_multivariate_monomials"
    /\ UNCHANGED <<args, ret, calls>>

CallMultivariateMonomials ==
    /\ pc = "get_multivariate_monomials"
    /\ ret' = get_multivariate_monomials(args.symbs, args.degree)
    /\ locals' = [locals EXCEPT !.symbol_monomials_map =
                     symbol_monomials_map(args.symbs, args.degree)]
    /\ pc' = "get_polynomial_in_z_z_bar"
    /\ UNCHANGED <<args, calls>>

CallPolynomialInZZBar ==
    /\ pc = "get_polynomial_in_z_z_bar"
    /\ calls' = <<get_polynomial_in_z_z_bar(args.symbs[1], args.degree)>>
    /\ pc' = "done"
    /\ UNCHANGED <<args, locals, ret>>

NextMonomials ==
    \/ CallVectorComponentMap
    \/ CallMultivariateMonomials
    \/ CallPolynomialInZZBar

SpecMonomials == InitMonomials /\ [][NextMonomials]_vars

-----------------------------------------------------------------------------
(* Claims about the monomials of vector symbols.                           *)

\* The number of components of a vector symbol.
ComponentCount(m) == m.shape[1] * m.shape[2]

\* The monomial with the exponents e on a set of atoms.
MonomialOf(e) ==
    {[c |-> 1, ang |-> <<0, 1>>,
      mon |-> [a \in {b \in DOMAIN e : e[b] > 0} |-> e[a]]]}

\* Every monomial in the components of symbs with exponents in 0..degree.
AllMonomials(symbs, degree) ==
    LET atoms == {Atom(symbs[j].name, k, symbs[j].conj) :
                     j \in DOMAIN symbs, k \in 1..MonMaxDim}
        used  == {a \in atoms : \E j \in DOMAIN symbs :
                     a[1] = symbs[j].name /\ a[2] <= ComponentCount(symbs[j])}
    IN  {MonomialOf(e) : e \in [used -> 0..degree]}

\* The product of the atoms of a set, each to the power one.
SquareFree(atoms) == {[c |-> 1, ang |-> <<0, 1>>, mon |-> SetToBag(atoms)]}

\* C12: for pairwise distinct symbols of one dimension dim and degree >= 0
\* get_multivariate_monomials returns the set of all monomials whose
\* exponents are in 0..degree, (degree+1)^(dim*arity) of them.
Thm_C12_MonomialSet ==
    (/\ pc \in {"get_polynomial_in_z_z_bar", "done"}
     /\ args.degree >= 0
     /\ \A i, j \in DOMAIN args.symbs :
           /\ i # j => args.symbs[i] # args.symbs[j]
           /\ ComponentCount(args.symbs[i]) = ComponentCount(args.symbs[j])) =>
        /\ ret = Return(AllMonomials(args.symbs, args.degree))
        /\ Cardinality(ret.val) =
              IntPow(args.degree + 1, ComponentCount(args.symbs[1]) * Len(args.symbs))

Wit_C12_MonomialSet ==
    /\ args = [symbs |-> <<VectorSymbol("z", 2), VectorSymbol("w", 2)>>, degree |-> 1]
    /\ LET z0 == Atom("z", 1, FALSE)
           z1 == Atom("z", 2, FALSE)
           w0 == Atom("w", 1, FALSE)
           w1 == Atom("w", 2, FALSE)
       IN  ret = Return({SquareFree({}), SquareFree({w0}), SquareFree({w1}), SquareFree({z0}),
                         SquareFree({z1}), SquareFree({w0, w1}), SquareFree({w0, z0}),
                         SquareFree({w0, z1}), SquareFree({w1, z0}), SquareFree({w1, z1}),
                         SquareFree({z0, z1}), SquareFree({w0, w1, z0}),
                         SquareFree({w0, w1, z1}), SquareFree({w0, z0, z1}),
                         SquareFree({w1, z0, z1}), SquareFree({w0, w1, z0, z1})})

\* C16: get_vector_component_map, and get_multivariate_monomials after it,
\* fails when two symbols of the list differ in their number of components,
\* and otherwise returns one entry per distinct symbol, the list of its
\* components.
Orig_C16_DimensionMismatch ==
    (pc \in {"get_polynomial_in_z_z_bar", "done"}) =>
        IF \E i, j \in DOMAIN args.symbs :
              ComponentCount(args.symbs[i]) # ComponentCount(args.symbs[j])
        THEN /\ locals.vector_component_map.exc = "AssertionError"
             /\ ret.exc = "AssertionError"
        ELSE /\ locals.vector_component_map.exc = "none"
             /\ LET map == locals.vector_component_map.val
                IN  /\ {map[i][1] : i \in DOMAIN map} = SeqToSet(args.symbs)
                    /\ Len(map) = Cardinality(SeqToSet(args.symbs))
                    /\ \A i \in DOMAIN map :
                          map[i][2] = [k \in 1..ComponentCount(args.symbs[1]) |->
                                          ExprSym(Atom(map[i][1].name, k, FALSE))]

\* sum over i, j in 0..degree of z0^i * conj(z0)^j
ZZBarSum(name, degree) ==
    {[c |-> 1, ang |-> <<0, 1>>, mon |-> t.mon] :
        t \in UNION AllMonomials(<<VectorSymbol(name, 1), conjugate(VectorSymbol(name, 1))>>,
                                 degree)}

\* conj(z0)*z0 + conj(z0) + z0 + 1
ZZBarDegreeOne(name) ==
    ExprAdd(ExprAdd(ExprAdd(ExprMul(ExprSym(Atom(name, 1, TRUE)), ExprSym(Atom(name, 1, FALSE))),
                            ExprSym(Atom(name, 1, TRUE))),
                    ExprSym(Atom(name, 1, FALSE))),
            ExprInt(1))

FinalProducts(map) == {PrefixProduct(t, Len(map)) : t \in multivariate_tuples(map)}

\* C20 as stated: the returned set is the set of the full products, every
\* per-symbol set contains 1 when degree >= 0, and every per-symbol set is
\* empty when degree < 0.
Orig_C20_PrefixProducts ==
    (pc \in {"get_polynomial_in_z_z_bar", "done"} /\ ret.exc = "none") =>
        LET map == locals.symbol_monomials_map.val
        IN  /\ ret.val = FinalProducts(map)
            /\ args.degree >= 0 => \A i \in DOMAIN map : ExprInt(1) \in map[i][2]
            /\ args.degree < 0 => \A i \in DOMAIN map : map[i][2] = {}

\* C20: the returned set is the set of the full products; every per-symbol
\* set contains 1 when degree >= 0; when degree < 0 every per-symbol set is
\* empty for symbols with components and {1} for symbols without.
Thm_C20_PrefixProducts ==
    (pc \in {"get_polynomial_in_z_z_bar", "done"} /\ ret.exc = "none") =>
        LET map == locals.symbol_monomials_map.val
        IN  /\ ret.val = FinalProducts(map)
            /\ args.degree >= 0 => \A i \in DOMAIN map : ExprInt(1) \in map[i][2]
            /\ args.degree < 0 =>
                  \A i \in DOMAIN map :
                     map[i][2] = IF ComponentCount(map[i][1]) = 0 THEN {ExprInt(1)} ELSE {}

Wit_C20_PrefixProducts ==
    /\ pc = "done"
    /\ args = [symbs |-> <<VectorSymbol("z", 1), VectorSymbol("w", 1)>>, degree |-> 1]
    /\ ret.exc = "none"
    /\ ExprSym(Atom("z", 1, FALSE)) \in ret.val
    /\ Cardinality(ret.val) = 4

-----------------------------------------------------------------------------
(* SpecIab: get_I_ab(a, b) and get_hyperquadric_hermitian_inner_product on *)
(* column vectors of length a + b whose entries are I or a symbol, so that *)
(* no product z_j * conj(w_j) is zero.                                     *)

IabMaxN == 2

NonzeroVectors(name, n) ==
    {Matrix(n, 1, [j \in 1..n |-> <<VectorEntry(name, j, kinds[j])>>]) :
        kinds \in [1..n -> {"I", "symbol"}]}

InitIab ==
    /\ pc = "get_I_ab"
    /\ \E a \in 0..IabMaxN, b \in 0..IabMaxN :
        \E z \in NonzeroVectors("z", a + b), w \in NonzeroVectors("w", a + b) :
            args = [z |-> z, w |-> w, a |-> a, b |-> b]
    /\ locals = NoResult
    /\ ret = NoResult
    /\ calls = <<>>

CallGetIab ==
    /\ pc = "get_I_ab"
    /\ locals' = get_I_ab(args.a, args.b)
    /\ pc' = "get_hyperquadric_hermitian_inner_product"
    /\ UNCHANGED <<args, ret, calls>>

CallInnerProductIab ==
    /\ pc = "get_hyperquadric_hermitian_inner_product"
    /\ ret' = get_hyperquadric_hermitian_inner_product(args.z, args.w, args.a, args.b)
    /\ pc' = "done"
    /\ UNCHANGED <<args, locals, calls>>

NextIab ==
    \/ CallGetIab
    \/ CallInnerProductIab

SpecIab == InitIab /\ [][NextIab]_vars

\* The Hermitian form of a matrix M: sum over j, k of z_j * M[j][k] * conj(w_k).
HermitianForm(M, z, w) ==
    ExprSum([j \in 1..M.shape[1] |->
                ExprSum([k \in 1..M.shape[2] |->
                            ExprMul(ExprMul(z.e[j][1], M.e[j][k]), ExprConj(w.e[k][1]))],
                        M.shape[2])],
            M.shape[1])

\* C21: for a + b >= 1 get_I_ab(a, b) is the diagonal matrix with a entries
\* +1 followed by b entries -1, and the Hermitian form of the returned
\* matrix is the value of get_hyperquadric_hermitian_inner_product(z, w, a,
\* b); for a + b = 0 get_I_ab fails.
Orig_C21_SignatureMatrix ==
    (pc = "done") =>
        IF args.a + args.b = 0 THEN locals.exc = "AssertionError"
        ELSE /\ locals = Return(SignatureMatrix(args.a, args.b))
             /\ ret = Return(HermitianForm(locals.val, args.z, args.w))

-----------------------------------------------------------------------------
(* SpecRoots: the group and the invariant polynomial built from the first  *)
(* primitive root, as get_phi_gamma_z_w_polarized builds them, and built   *)
(* from the k-th root of get_primitive_pth_roots_of_unity(p).              *)

RootMaxN == 2

RootMaxP == 5

InitRoots ==
    /\ pc = "get_primitive_pth_roots_of_unity"
    /\ \E a \in 0..RootMaxN, p \in 1..RootMaxP :
        \E b \in (IF a = 0 THEN 1 ELSE 0)..(RootMaxN - a) :
        \E q \in Tuples(0..(p - 1), a + b),
           k \in 1..Len(get_primitive_pth_roots_of_unity(p)) :
            args = [a |-> a, b |-> b, p |-> p, q |-> q, k |-> k]
    /\ locals = <<>>
    /\ ret = NoResult
    /\ calls = <<>>

CallPrimitiveRootsOfP ==
    /\ pc = "get_primitive_pth_roots_of_unity"
    /\ locals' = get_primitive_pth_roots_of_unity(args.p)
    /\ pc' = "first_root"
    /\ UNCHANGED <<args, ret, calls>>

\* get_phi_gamma_z_w_polarized: the group of primitive_roots[0] and its Phi.
CallGammaFirstRoot ==
    /\ pc = "first_root"
    /\ ret' = [group |-> get_type_iii_gamma(args.a, args.b, args.p, args.q, locals[1]),
               phi   |-> get_phi_gamma_z_w_polarized(args.a, args.b, args.p, args.q)]
    /\ pc' = "other_root"
    /\ UNCHANGED <<args, locals, calls>>

\* The same construction from the k-th primitive root.
CallGammaOtherRoot ==
    /\ pc = "other_root"
    /\ calls' = <<CHOOSE r \in
                    {[group |-> group,
                      phi   |-> IF group.exc # "none" THEN group
                                ELSE CHOOSE r2 \in
                                       {IF phi_gamma.exc # "none" THEN phi_gamma
                                        ELSE Return(simplify(phi_gamma.val))
                                        : phi_gamma \in {get_phi_gamma_product_polarized(
                                              SymbolVector("z", args.a + args.b),
                                              SymbolVector("w", args.a + args.b),
                                              group.val, args.a, args.b)}} : TRUE]
                     : group \in {get_type_iii_gamma(args.a, args.b, args.p, args.q,
                                                     locals[args.k])}} : TRUE>>
    /\ pc' = "done"
    /\ UNCHANGED <<args, locals, ret>>

NextRoots ==
    \/ CallPrimitiveRootsOfP
    \/ CallGammaFirstRoot
    \/ CallGammaOtherRoot

SpecRoots == InitRoots /\ [][NextRoots]_vars

\* The number of places of a sequence that hold x.
Occurrences(sq, x) == Cardinality({i \in DOMAIN sq : sq[i] = x})

\* C22: for fixed (a, b, p, q) the list returned by get_type_iii_gamma for
\* the k-th primitive root is a rearrangement of the list returned for the
\* first one (the same set of matrices, each as often), and the invariant
\* polynomial built from it equals the one built from the first root.
Thm_C22_RootIndependence ==
    (pc = "done") =>
        /\ ret.group.exc = "none"
        /\ calls[1].group.exc = "none"
        /\ SeqToSet(calls[1].group.val) = SeqToSet(ret.group.val)
        /\ \A m \in SeqToSet(ret.group.val) :
              Occurrences(calls[1].group.val, m) = Occurrences(ret.group.val, m)
        /\ ret.phi.exc = "none"
        /\ calls[1].phi = ret.phi

Wit_C22_RootIndependence ==
    /\ pc = "done"
    /\ args = [a |-> 1, b |-> 1, p |-> 5, q |-> <<1, 2>>, k |-> 2]
    /\ calls[1].group.val # ret.group.val
    /\ SeqToSet(calls[1].group.val) = SeqToSet(ret.group.val)
    /\ calls[1].phi = ret.phi
    /\ ret.phi.exc = "none"

-----------------------------------------------------------------------------
(* The arguments the fuzzing driver passes to its callback.                *)

\* C23: every invocation of the callback has a >= min_a, b >= min_b,
\* a + b = len(q) >= 1, 2 <= a + b + 1 <= p <= max_p and q strictly
\* increasing with entries in 1..p-1; the driver raises only at its first
\* assertion, never at n <= p - 1; and get_type_iii_gamma accepts the
\* arguments of the latest invocation.
Thm_C23_FuzzArguments ==
    /\ \A i \in DOMAIN calls :
          /\ calls[i].a >= args.min_a
          /\ calls[i].b >= args.min_b
          /\ calls[i].a + calls[i].b = Len(calls[i].q)
          /\ Len(calls[i].q) >= 1
          /\ 2 <= calls[i].a + calls[i].b + 1
          /\ calls[i].a + calls[i].b + 1 <= calls[i].p
          /\ calls[i].p <= args.max_p
          /\ \A k \in DOMAIN calls[i].q : calls[i].q[k] \in 1..(calls[i].p - 1)
          /\ \A k \in 1..(Len(calls[i].q) - 1) : calls[i].q[k] < calls[i].q[k + 1]
    /\ pc = "raised" => (calls = <<>> /\ args.max_n - 1 > args.max_p)
    /\ calls # <<>> =>
          LET c == calls[Len(calls)]
          IN  get_type_iii_gamma(c.a, c.b, c.p, c.q, Exp2PiI(1, c.p)).exc = "none"

Wit_C23_FuzzArguments ==
    /\ args = [max_n |-> 3, max_p |-> 4, min_a |-> 1, min_b |-> 1]
    /\ Len(calls) = 3
    /\ calls[1] = [a |-> 1, b |-> 1, p |-> 3, q |-> <<1, 2>>]
    /\ calls[3] = [a |-> 1, b |-> 1, p |-> 4, q |-> <<1, 3>>]

=============================================================================
